---- MODULE Spec2Model ----
(***************************************************************************)
(* Verification model of energia-prep-2 (package energia_prep2.calc).      *)
(*                                                                         *)
(* Several sub-systems are modelled, each with its own specification:        *)
(*   SpecCommit - the hourly commit loop of calc/03_commit.py (run)        *)
(*   SpecQueue  - the job queue dispatcher of calc/listener.py             *)
(*   SpecRun    - the stage orchestration of calc/runner.py (run_calc)     *)
(*   SpecProp   - the arbitrage proposer of calc/02_proposer.py (run)       *)
(*   SpecListen - the timed tasks of one CalcListener (calc/listener.py)    *)
(*   SpecS4     - the commit loop on the hours of scenario S4              *)
(*   SpecIngest - the tariff zone masks of calc/01_ingest.py (run)         *)
(*   SpecKpi    - the cash flows of calc/03_commit.py (run), in floats     *)
(*   SpecQueueLive - SpecQueue with the fairness of the listener           *)
(*   SpecFlow   - steps 3) and 4) of calc/03_commit.py, in floats          *)
(*   SpecPrice  - the amounts of an hour of 03_commit and 04_pricing       *)
(*   SpecKA     - _compute_K_A_per_day of calc/04b_pricing_dyst.py         *)
(*   SpecBootstrap - the SQL files run by tasks/bootstrap.py               *)
(*                                                                         *)
(* Energies are fixed-point numbers: every quantity is a whole number of   *)
(* quanta, one quantum being the tolerance EPS of 03_commit.py (1e-12 MWh);*)
(* products with an efficiency or a loss rate are rounded down to the      *)
(* quantum (the code's floats round to the nearest representable number).  *)
(***************************************************************************)
EXTENDS Integers, Sequences, FiniteSets, TLC

VARIABLES
    \* ---- 03_commit.run ----
    H,          \* per-run scalars read from the hourly buffer H (03_commit.py:42-61)
    soc_oze,    \* running SOC of the OZE pool  (03_commit.py:52)
    soc_arbi,   \* running SOC of the ARBI pool (03_commit.py:53)
    row,        \* the i-th element of every output array (03_commit.py:82-118)
    cpc,        \* position in the hour loop: "head" (before hour i) / "tail" (hour i written)
    \* ---- output.calc_job_queue and the dispatchers (listener.py) ----
    status_check,  \* the values the CHECK constraint on status accepts
    status,        \* job_id -> status column ("none": row not inserted yet)
    error,         \* job_id -> error column (NULL or the stored text's size)
    picks,         \* job_id -> number of picks that set it running
    runs,          \* job_id -> number of run_calc calls started for it
    run_raised,    \* job_id -> a run_calc call for it raised
    busy,          \* dispatcher -> CalcListener._busy
    dpc,           \* dispatcher -> position in _drain_queue
    picked,        \* dispatcher -> row of CTE picked / job_id being run (0: none)
    snap,          \* dispatcher -> queued rows in the snapshot of its pick statement
    \* ---- run_calc (runner.py) and persist_all (05_persist.py) ----
    clear_mode,    \* CLEAR_MODE (05_persist.py:16)
    reindex,       \* PERSIST_REINDEX and N >= COPY_THRESHOLD (05_persist.py:982)
    rpc,           \* run -> position in run_calc
    cur_stage,     \* run -> index in _ALLOWED_STAGE of the stage the run is at
    stage_status,  \* run -> stage -> committed status in output.calc_job_stage
    txn,           \* run -> transaction status of the run's connection
    pending,       \* run -> stage tables holding uncommitted rows of the run
    visible,       \* stage table -> runs whose rows are committed in it
    wlog,          \* run -> the operations persist_all has executed, in order
    row_commits,   \* run -> number of commits that made rows of the run visible
    failed_at,     \* run -> index of the stage at which run_calc raised (0: none)
    \* ---- 02_proposer.run ----
    H02,               \* the inputs read from the hourly buffer H (02_proposer.py:185-241)
    k_low_by_hour,     \* hour -> its high hour, 0 when the hour is no low (02_proposer.py:147)
    k_high_by_hour,    \* hour -> its low hour, 0 when the hour is no high (02_proposer.py:148)
    soc_curr,          \* simulated SOC of ARBI (02_proposer.py:242)
    pending_arbi_net,  \* NET energy of the current cycle not yet discharged (02_proposer.py:243)
    cycles_used,       \* date_key -> cycles closed on that day (02_proposer.py:274)
    prev_day,          \* date_key of the previous hour, 0 for None (02_proposer.py:275)
    out02,             \* the elements 1..i of the output arrays (02_proposer.py:249-272)
    ppc,               \* position in run: "pairs" / "loop" / "off"
    \* ---- the tasks of one CalcListener (listener.py), with time in seconds ----
    notify_event,      \* _notify_event is set (listener.py:283)
    tick_age,          \* time.monotonic() - _last_tick_ts, counted up to TickSec (listener.py:284)
    debounce_task,     \* _debounce_task: "none" / "sleep" / "drain" (listener.py:279)
    debounce_left,     \* remaining time of the sleep of _debounced_drain
    poll_task,         \* _poll_loop: "sleep" / "drain_notify" / "drain_tick" / "off"
    poll_left,         \* remaining time of the sleep of _poll_loop
    start_task,        \* start(): "pending" (before its drain) / "drain" / "done" / "off"
    listener_busy,     \* _busy (listener.py:285)
    drain_pc,          \* position of the active drain: "pick" / "run" / "none"
    drain_age,         \* time the active drain has taken so far
    queued,            \* number of rows of the queue table with status queued
    idle_age,          \* time since the last drain ended, counted up to TickSec + 1
    burst_age,         \* time since the first NOTIFY of the burst (-1: no burst yet)
    burst_drains,      \* drains started on behalf of NOTIFY since the burst began
    burst_runs,        \* run_calc calls of those drains
    burst_first_drain, \* burst_age when the first of those drains started (-1: none)
    \* ---- 01_ingest.run: zone masks ----
    ipc,          \* position in the run: "off" / "loop" / "failed" (RuntimeError raised)
    i01,          \* number of hours the loop has finished
    cache_masks,  \* (month, mode) -> the three 24-hour masks (01_ingest.py:198)
    win_of,       \* (month, mode) -> the window entries read for it
    zone01,       \* zone_peak_am, zone_peak_pm, zone_off of the finished hours
    \* ---- 03_commit.run: financial KPI of one hour ----
    kpc,          \* "off" / "flows" (hour loop finished) / "kpi" (cash flows computed)
    kpi_in,       \* the four AC flows of the hour and its two effective prices
    kpi_out,      \* the six cash-flow elements of the hour (03_commit.py:301-314)
    \* ---- a function of the sources evaluated on its own ----
    fpc,          \* "args": the arguments are chosen / "ret": the function has returned
    fin,          \* the arguments
    fout          \* the returned value

commitVars == <<H, soc_oze, soc_arbi, row, cpc>>
queueVars == <<status_check, status, error, picks, runs, run_raised, busy, dpc, picked, snap>>

runVars == <<clear_mode, reindex, rpc, cur_stage, stage_status, txn, pending, visible, wlog,
             row_commits, failed_at>>

propVars == <<H02, k_low_by_hour, k_high_by_hour, soc_curr, pending_arbi_net, cycles_used,
              prev_day, out02, ppc>>

listenVars == <<notify_event, tick_age, debounce_task, debounce_left, poll_task, poll_left,
                start_task, listener_busy, drain_pc, drain_age, queued, idle_age,
                burst_age, burst_drains, burst_runs, burst_first_drain>>

ingestVars == <<ipc, i01, cache_masks, win_of, zone01>>

kpiVars == <<kpc, kpi_in, kpi_out>>

funVars == <<fpc, fin, fout>>

vars == <<H, soc_oze, soc_arbi, row, cpc,
          status_check, status, error, picks, runs, run_raised, busy, dpc, picked, snap,
          clear_mode, reindex, rpc, cur_stage, stage_status, txn, pending, visible, wlog,
          row_commits, failed_at,
          H02, k_low_by_hour, k_high_by_hour, soc_curr, pending_arbi_net, cycles_used,
          prev_day, out02, ppc,
          notify_event, tick_age, debounce_task, debounce_left, poll_task, poll_left,
          start_task, listener_busy, drain_pc, drain_age, queued, idle_age,
          burst_age, burst_drains, burst_runs, burst_first_drain,
          ipc, i01, cache_masks, win_of, zone01,
          kpc, kpi_in, kpi_out,
          fpc, fin, fout>>

----------------------------------------------------------------------------
(* Bounds of the model *)

\* capacity of the ARBI pool, in quanta; the largest per-hour surplus or
\* deficit is twice as much
MaxQty == 3
\* number of rows ever inserted into output.calc_job_queue
MaxJobs == 3
\* number of dispatcher processes (CalcListener instances) on the same database
NumDisp == 2
\* number of concurrent run_calc executions (one calc_id and connection each)
NumRuns == 2
\* number of hours N of the series the proposer is run on
NumHours == 3
\* largest number of rows of the queue table that are queued at one time
MaxQueued == 2
\* longest time a drain takes, in seconds
MaxDrainTime == 2
\* hours of the calendar the ingest loop goes through
NumIngest == 2

----------------------------------------------------------------------------
(* 03_commit.py : numeric helpers *)

\* 03_commit.py:27  EPS = 1e-12; one quantum of the fixed-point grid
EPS == 1

Min(a, b) == IF a <= b THEN a ELSE b
Max(a, b) == IF a >= b THEN a ELSE b
Min3(a, b, c) == Min(a, Min(b, c))

\* a fraction (efficiency, loss rate) is a pair <<numerator, denominator>>
\* x * f, rounded down to the quantum
MulFrac(x, f) == (x * f[1]) \div f[2]
\* x / f, rounded down to the quantum
DivFrac(x, f) == (x * f[2]) \div f[1]
\* mutant of ConvLoss: the two terms of the difference swapped
ConvLossSwapped(x, f) == (x * (f[1] - f[2])) \div f[1]
\* x * (1/f - 1), rounded down to the quantum (03_commit.py:162,172)
ConvLoss(x, f) == (x * (f[2] - f[1])) \div f[1]
\* f > EPS for a dimensionless fraction (03_commit.py:162,187,211,235,282)
FracPositive(f) == f[1] > 0

----------------------------------------------------------------------------
(* 03_commit.py : inputs *)

\* efficiencies eta_ch, eta_dis in (0,1] (00_snapshot.py:359-360)
EtaSet == { <<1, 1>>, <<1, 2>> }
\* self-discharge per hour lambda_h in [0,1) (00_snapshot.py:388)
LambdaSet == { <<0, 1>>, <<1, 2>> }
\* per-hour surplus and deficit (03_commit.py:64-65)
Qty == {0, 1, 2, MaxQty, 2 * MaxQty}
\* per-hour AC proposals of stage 02 (03_commit.py:77-78)
PropSet == {0, MaxQty, 2 * MaxQty}
\* grid caps in AC energy per hour, >= 0 (00_snapshot.py:448-449)
GridCapSet == {0, 1, 2}

\* The scalars of one run.  Capacities and caps are finite and >= 0
\* (00_snapshot.py:337-344, 444-449; 01_ingest.py:332-335 broadcasts them),
\* so the np.isfinite(...) tests of 03_commit.py:123-124,142,215,227,238,252,266
\* are always true and are not repeated below.
RunParams ==
    [ emax_oze : {0, 2},
      emax_arbi : {0, MaxQty},
      eta_ch : EtaSet,
      eta_dis : EtaSet,
      lambda_h : LambdaSet,
      arbi_dis_to_load : BOOLEAN,
      cap_grid_export_ac : GridCapSet,
      cap_grid_import_ac : GridCapSet,
      cap_bess_charge_net : {1, MaxQty},
      cap_bess_discharge_net : {1, MaxQty} ]

\* 01_ingest.py:505-510  SOC start clamped to [0, emax]
ClampSoc0(raw, emax) == Max(0, Min(raw, emax))

\* 03_commit.py:82-118  every output array starts as zeros
ZeroRow ==
    [ charge_from_surplus |-> 0, charge_from_grid |-> 0,
      discharge_to_load |-> 0, discharge_to_grid |-> 0,
      e_import |-> 0, e_export |-> 0,
      export_from_surplus |-> 0, export_from_arbi |-> 0,
      import_for_load |-> 0, import_for_arbi |-> 0,
      soc_oze_before_idle |-> 0, soc_oze_after_idle |-> 0,
      soc_arbi_before_idle |-> 0, soc_arbi_after_idle |-> 0,
      loss_idle_oze |-> 0, loss_idle_arbi |-> 0,
      loss_conv_ch |-> 0, loss_conv_dis_to_grid |-> 0, loss_conv_dis_to_load |-> 0,
      wasted_surplus |-> 0, unserved_load |-> 0,
      cap_blocked_dis_ac |-> 0, cap_blocked_ch_ac |-> 0,
      bind_export_cap |-> FALSE, bind_import_cap |-> FALSE,
      \* the percentages are exact fractions <<numerator, denominator>>
      soc_arbi_pct_of_total |-> <<0, 1>>, soc_oze_pct_of_total |-> <<0, 1>>,
      \* inputs of the hour, kept with the row to state the claims
      prop_dis |-> 0, prop_ch |-> 0, surplus_in |-> 0, deficit_in |-> 0,
      soc_oze_in |-> 0, soc_arbi_in |-> 0 ]

\* mutant of HourStart: the hour starts with budgets far above the BESS caps
HourStartNoCaps(h, so, sa, surplus, deficit, prop_dis, prop_ch) ==
    [ soc_oze |-> so, soc_arbi |-> sa,
      dis_net_budget |-> 100 * (h.cap_bess_discharge_net + 1),
      ch_net_budget |-> 100 * (h.cap_bess_charge_net + 1),
      surplus |-> surplus, deficit |-> deficit,
      o |-> [ZeroRow EXCEPT !.prop_dis = prop_dis, !.prop_ch = prop_ch,
                            !.surplus_in = surplus, !.deficit_in = deficit,
                            !.soc_oze_in = so, !.soc_arbi_in = sa] ]
\* the loop-local state at the top of hour i (03_commit.py:121-124)
HourStart(h, so, sa, surplus, deficit, prop_dis, prop_ch) ==
    [ soc_oze |-> so, soc_arbi |-> sa,
      dis_net_budget |-> h.cap_bess_discharge_net,
      ch_net_budget |-> h.cap_bess_charge_net,
      surplus |-> surplus, deficit |-> deficit,
      o |-> [ZeroRow EXCEPT !.prop_dis = prop_dis, !.prop_ch = prop_ch,
                            !.surplus_in = surplus, !.deficit_in = deficit,
                            !.soc_oze_in = so, !.soc_arbi_in = sa] ]

----------------------------------------------------------------------------
(* 03_commit.py : the six steps of one hour *)

\* mutant of ToOzeNet: the OZE pool is passed over
ToOzeNetNone(surplus, headroom_oze) == 0
\* 03_commit.py:130  to_oze_net = min(surplus_net_mwh[i], headroom_oze)
ToOzeNet(surplus, headroom_oze) == Min(surplus, headroom_oze)

\* 03_commit.py:126-150  1) SURPLUS: OZE <- SURPLUS -> ARBI <- SURPLUS -> export
SurplusStep(h, s) ==
    IF s.surplus > EPS
    THEN LET headroom_oze == Max(0, h.emax_oze - s.soc_oze)
             to_oze_net == ToOzeNet(s.surplus, headroom_oze)
             s1 == IF to_oze_net > EPS
                   THEN [s EXCEPT !.soc_oze = Min(h.emax_oze, @ + to_oze_net),
                                  !.surplus = @ - to_oze_net]
                   ELSE s
             headroom_arbi == Max(0, h.emax_arbi - s1.soc_arbi)
             to_arbi_net == Min3(s1.surplus, headroom_arbi, s1.ch_net_budget)
             s2 == IF to_arbi_net > EPS
                   THEN [s1 EXCEPT !.o.charge_from_surplus = @ + to_arbi_net,
                                   !.surplus = @ - to_arbi_net,
                                   !.soc_arbi = Min(h.emax_arbi, @ + to_arbi_net),
                                   !.ch_net_budget = Max(0, @ - to_arbi_net)]
                   ELSE s1
         IN  IF s2.surplus > EPS
             THEN [s2 EXCEPT !.o.e_export = @ + s2.surplus,
                             !.o.export_from_surplus = @ + s2.surplus,
                             !.surplus = 0]
             ELSE s2
    ELSE s

\* 03_commit.py:152-179  2) DEFICIT: OZE -> LOAD -> (opt.) ARBI -> LOAD -> import
DeficitStep(h, s) ==
    LET deficit == Max(0, s.deficit)
    IN  IF deficit > EPS
        THEN LET from_oze == Min(deficit, s.soc_oze)
                 s1 == IF from_oze > EPS
                       THEN [s EXCEPT !.soc_oze = Max(0, @ - from_oze),
                                      !.deficit = deficit - from_oze,
                                      !.o.discharge_to_load = @ + from_oze,
                                      !.o.loss_conv_dis_to_load =
                                          @ + (IF FracPositive(h.eta_dis)
                                               THEN ConvLoss(from_oze, h.eta_dis) ELSE 0)]
                       ELSE [s EXCEPT !.deficit = deficit]
                 can_from_arbi == Min3(s1.deficit, s1.soc_arbi, s1.dis_net_budget)
                 s2 == IF s1.deficit > EPS /\ h.arbi_dis_to_load /\ s1.dis_net_budget > EPS
                          /\ can_from_arbi > EPS
                       THEN [s1 EXCEPT !.soc_arbi = Max(0, @ - can_from_arbi),
                                       !.deficit = @ - can_from_arbi,
                                       !.dis_net_budget = Max(0, @ - can_from_arbi),
                                       !.o.discharge_to_load = @ + can_from_arbi,
                                       !.o.loss_conv_dis_to_load =
                                           @ + (IF FracPositive(h.eta_dis)
                                                THEN ConvLoss(can_from_arbi, h.eta_dis) ELSE 0)]
                       ELSE s1
             IN  IF s2.deficit > EPS
                 THEN [s2 EXCEPT !.o.e_import = @ + s2.deficit,
                                 !.o.import_for_load = @ + s2.deficit]
                 ELSE s2
        ELSE s

\* 03_commit.py:181-201  3) ARBI -> GRID (AC) as proposed by stage 02
ArbiToGridStep(h, s) ==
    IF s.dis_net_budget > EPS
    THEN LET max_net_for_grid == Min(s.soc_arbi, s.dis_net_budget)
             max_ac_for_grid == MulFrac(max_net_for_grid, h.eta_dis)
             out_ac == Min(s.o.prop_dis, max_ac_for_grid)
             used_net == Min(IF FracPositive(h.eta_dis) THEN DivFrac(out_ac, h.eta_dis)
                                                        ELSE out_ac,
                             max_net_for_grid)
             blocked == Max(0, s.o.prop_dis - max_ac_for_grid)
         IN  IF out_ac > EPS
             THEN [s EXCEPT !.soc_arbi = Max(0, @ - used_net),
                            !.dis_net_budget = Max(0, @ - used_net),
                            !.o.discharge_to_grid = @ + out_ac,
                            !.o.export_from_arbi = @ + out_ac,
                            !.o.e_export = @ + out_ac,
                            !.o.loss_conv_dis_to_grid = @ + (used_net - out_ac)]
             ELSE IF blocked > EPS
                  THEN [s EXCEPT !.o.cap_blocked_dis_ac = @ + blocked]
                  ELSE s
    ELSE s

\* 03_commit.py:203-222  4) ARBI <- GRID (AC) as proposed by stage 02
GridToArbiStep(h, s) ==
    LET in_ac == s.o.prop_ch
        headroom_arbi == Max(0, h.emax_arbi - s.soc_arbi)
        net_to_arbi == Min3(MulFrac(in_ac, h.eta_ch), headroom_arbi, s.ch_net_budget)
        ac_needed == IF FracPositive(h.eta_ch) THEN DivFrac(net_to_arbi, h.eta_ch)
                                               ELSE net_to_arbi
        want_net == MulFrac(s.o.prop_ch, h.eta_ch)
        blocked_net == Max(0, want_net - Max(0, Min(headroom_arbi, s.ch_net_budget)))
    IN  IF net_to_arbi > EPS
        THEN [s EXCEPT !.soc_arbi = Min(h.emax_arbi, @ + net_to_arbi),
                       !.o.charge_from_grid = @ + net_to_arbi,
                       !.o.e_import = @ + ac_needed,
                       !.o.import_for_arbi = @ + ac_needed,
                       !.o.loss_conv_ch = @ + (ac_needed - net_to_arbi),
                       !.ch_net_budget = Max(0, @ - net_to_arbi)]
        ELSE IF blocked_net > EPS
             THEN [s EXCEPT !.o.cap_blocked_ch_ac = @ + blocked_net]
             ELSE s

\* mutant of RevertSocExport: the SOC is restored without the clamp to emax_arbi
RevertSocExportNoClamp(h, soc, net_revert) == soc + net_revert
\* 03_commit.py:236  soc_arbi = min(emax_arbi, soc_arbi + net_revert)
RevertSocExport(h, soc, net_revert) == Min(h.emax_arbi, soc + net_revert)

\* mutant of CutArbi: the ARBI export is passed over
CutArbiNone(export_from_arbi, overflow) == 0
\* 03_commit.py:229  cut_arbi = min(export_from_arbi_ac_mwh[i], overflow)
CutArbi(export_from_arbi, overflow) == Min(export_from_arbi, overflow)

\* mutant of CutSurplus: only the ARBI export is cut
CutSurplusNone(export_from_surplus, overflow) == 0
\* 03_commit.py:242  cut_surplus = min(export_from_surplus_ac_mwh[i], overflow)
CutSurplus(export_from_surplus, overflow) == Min(export_from_surplus, overflow)

\* 03_commit.py:225-248  5) grid cap on the export sum (SURPLUS + ARBI)
ExportCapStep(h, s) ==
    LET export_total == s.o.export_from_surplus + s.o.export_from_arbi
    IN  IF export_total > h.cap_grid_export_ac + EPS
        THEN LET overflow == export_total - h.cap_grid_export_ac
                 cut_arbi == CutArbi(s.o.export_from_arbi, overflow)
                 net_revert == IF FracPositive(h.eta_dis) THEN DivFrac(cut_arbi, h.eta_dis)
                                                          ELSE cut_arbi
                 s1 == IF cut_arbi > EPS
                       THEN [s EXCEPT !.o.export_from_arbi = @ - cut_arbi,
                                      !.o.e_export = @ - cut_arbi,
                                      !.soc_arbi = RevertSocExport(h, @, net_revert),
                                      !.dis_net_budget =
                                          Min(@ + net_revert, h.cap_bess_discharge_net)]
                       ELSE s
                 overflow1 == overflow - cut_arbi
                 cut_surplus == CutSurplus(s1.o.export_from_surplus, overflow1)
                 s2 == IF overflow1 > EPS /\ cut_surplus > EPS
                       THEN [s1 EXCEPT !.o.export_from_surplus = @ - cut_surplus,
                                       !.o.e_export = @ - cut_surplus,
                                       !.o.wasted_surplus = @ + cut_surplus]
                       ELSE s1
             IN  [s2 EXCEPT !.o.bind_export_cap = TRUE]
        ELSE s

\* 03_commit.py:250-276  5) grid cap on the import sum (LOAD + ARBI)
ImportCapStep(h, s) ==
    LET import_total == s.o.import_for_load + s.o.import_for_arbi
    IN  IF import_total > h.cap_grid_import_ac + EPS
        THEN LET overflow == import_total - h.cap_grid_import_ac
                 cut_arbi == Min(s.o.import_for_arbi, overflow)
                 net_revert == MulFrac(cut_arbi, h.eta_ch)
                 s0 == IF cut_arbi > EPS
                       THEN [s EXCEPT !.o.import_for_arbi = @ - cut_arbi,
                                      !.o.e_import = @ - cut_arbi]
                       ELSE s
                 s1 == IF cut_arbi > EPS /\ net_revert > EPS
                       THEN [s0 EXCEPT !.soc_arbi = Max(0, @ - net_revert),
                                       !.o.charge_from_grid = Max(0, @ - net_revert),
                                       !.o.loss_conv_ch =
                                           Max(0, @ - (cut_arbi - net_revert)),
                                       !.ch_net_budget =
                                           Min(@ + net_revert, h.cap_bess_charge_net)]
                       ELSE s0
                 overflow1 == overflow - cut_arbi
                 cut_load == Min(s1.o.import_for_load, overflow1)
                 s2 == IF overflow1 > EPS /\ cut_load > EPS
                       THEN [s1 EXCEPT !.o.import_for_load = @ - cut_load,
                                       !.o.e_import = @ - cut_load,
                                       !.o.unserved_load = @ + cut_load]
                       ELSE s1
             IN  [s2 EXCEPT !.o.bind_import_cap = TRUE]
        ELSE s

\* 03_commit.py:278-291  6) idle loss and the SOC snapshots
IdleStep(h, s) ==
    LET loss_oze == MulFrac(s.soc_oze, h.lambda_h)
        loss_arbi == MulFrac(s.soc_arbi, h.lambda_h)
        s1 == [s EXCEPT !.o.soc_oze_before_idle = s.soc_oze,
                        !.o.soc_arbi_before_idle = s.soc_arbi]
        s2 == IF FracPositive(h.lambda_h)
              THEN [s1 EXCEPT !.soc_oze = Max(0, @ - loss_oze),
                              !.soc_arbi = Max(0, @ - loss_arbi),
                              !.o.loss_idle_oze = @ + loss_oze,
                              !.o.loss_idle_arbi = @ + loss_arbi]
              ELSE s1
    IN  [s2 EXCEPT !.o.soc_oze_after_idle = s2.soc_oze,
                   !.o.soc_arbi_after_idle = s2.soc_arbi]

\* 03_commit.py:295, 297  100.0 * soc / total_emax if total_emax > EPS else 0.0
SocPct(soc, total_emax) == IF total_emax > EPS THEN <<100 * soc, total_emax>> ELSE <<0, 1>>

\* 03_commit.py:293-298  the SOC of the hour as a share of emax_oze + emax_arbi
SocPctStep(h, s) ==
    LET total_emax == Max(0, h.emax_oze + h.emax_arbi)
    IN  [s EXCEPT !.o.soc_arbi_pct_of_total = SocPct(s.o.soc_arbi_after_idle, total_emax),
                  !.o.soc_oze_pct_of_total = SocPct(s.o.soc_oze_after_idle, total_emax)]

\* 03_commit.py:121-298  the body of the hour loop, steps 1) to 6) in order
HourBody(h, s) ==
    SocPctStep(h, IdleStep(h, ImportCapStep(h, ExportCapStep(h,
        GridToArbiStep(h, ArbiToGridStep(h, DeficitStep(h, SurplusStep(h, s))))))))

----------------------------------------------------------------------------
(* output.calc_job_queue (params_api.py:75-85) and listener.py *)

\* job_id; rows are inserted in this order, so created_at grows with job_id
Jobs == 1 .. MaxJobs
Disp == 1 .. NumDisp

\* params_api.py:80  CHECK (status IN ('queued','running','done','error'))
EnqueueDdlStatuses == {"queued", "running", "done", "error"}
\* the queue table as the bootstrap SQL (20_tables/04_support_tables.sql, not
\* part of the sources) is described to create it: the five lifecycle statuses
BootstrapStatuses == {"queued", "running", "done", "failed", "skipped"}

\* the error column is NULL
NoError == [null |-> TRUE, chars |-> 0, bytes |-> 0]

----------------------------------------------------------------------------
(* runner.py, 05_persist.py : stages and stage tables *)

Runs == 1 .. NumRuns

\* runner.py:221
ALLOWED_STAGE == <<"00", "01", "02", "03", "04", "05", "06">>
StageIx == 1 .. Len(ALLOWED_STAGE)
IxOf(name) == CHOOSE i \in StageIx : ALLOWED_STAGE[i] = name

\* 05_persist.py:28-31, 296  the four stage output tables
StageTables == {"01", "02", "03", "04"}

\* 05_persist.py:978-1025  the operations of persist_all's transaction block
PersistOrder ==
    IF reindex
    THEN <<"clear", "drop_idx", "01", "02", "03", "create_idx", "04", "analyze">>
    ELSE <<"clear", "01", "02", "03", "04", "analyze">>

\* 05_persist.py:299-315  the values of CLEAR_MODE that are told apart
ClearModes == {"delete", "truncate", "drop", "none"}

\* no run_calc is executing
RunOff ==
    /\ clear_mode = "delete"
    /\ reindex = FALSE
    /\ rpc = [r \in Runs |-> "off"]
    /\ cur_stage = [r \in Runs |-> 1]
    /\ stage_status = [r \in Runs |-> [s \in StageIx |-> "none"]]
    /\ txn = [r \in Runs |-> "idle"]
    /\ pending = [r \in Runs |-> {}]
    /\ visible = [tb \in StageTables |-> {}]
    /\ wlog = [r \in Runs |-> <<>>]
    /\ row_commits = [r \in Runs |-> 0]
    /\ failed_at = [r \in Runs |-> 0]

\* no dispatcher is running and the queue table is empty
QueueOff ==
    /\ status_check = BootstrapStatuses
    /\ status = [j \in Jobs |-> "none"]
    /\ error = [j \in Jobs |-> NoError]
    /\ picks = [j \in Jobs |-> 0]
    /\ runs = [j \in Jobs |-> 0]
    /\ run_raised = [j \in Jobs |-> FALSE]
    /\ busy = [d \in Disp |-> FALSE]
    /\ dpc = [d \in Disp |-> "idle"]
    /\ picked = [d \in Disp |-> 0]
    /\ snap = [d \in Disp |-> {}]


\* no commit loop is running
CommitOff ==
    /\ H = [emax_oze |-> 0, emax_arbi |-> 0, eta_ch |-> <<1, 1>>, eta_dis |-> <<1, 1>>,
            lambda_h |-> <<0, 1>>, arbi_dis_to_load |-> FALSE,
            cap_grid_export_ac |-> 0, cap_grid_import_ac |-> 0,
            cap_bess_charge_net |-> 0, cap_bess_discharge_net |-> 0]
    /\ soc_oze = 0 /\ soc_arbi = 0
    /\ row = ZeroRow
    /\ cpc = "off"

\* no proposer is running
PropOff ==
    /\ H02 = [ date_key |-> <<>>, price_import |-> <<>>, price_export |-> <<>>,
               cycles_per_day |-> 0, allow_carry_over |-> FALSE, force_order |-> FALSE,
               emax_arbi_mwh |-> 0, eta_ch_frac |-> <<1, 1>>, eta_dis_frac |-> <<1, 1>>,
               cap_grid_import_ac_mwh |-> 0, cap_grid_export_ac_mwh |-> 0,
               cap_bess_charge_net_mwh |-> 0, cap_bess_discharge_net_mwh |-> 0,
               base_min_profit_pln_mwh |-> 0,
               soc_low_threshold |-> 0, soc_high_threshold |-> 0,
               bonus_hrs_ch |-> {}, bonus_hrs_dis |-> {},
               bonus_ch_window |-> 0, bonus_dis_window |-> 0,
               bonus_low_soc_ch |-> 0, bonus_high_soc_dis |-> 0,
               soc0_arbi_mwh |-> 0 ]
    /\ k_low_by_hour = <<>> /\ k_high_by_hour = <<>>
    /\ soc_curr = 0 /\ pending_arbi_net = 0
    /\ cycles_used = <<>>
    /\ prev_day = 0
    /\ out02 = <<>>
    /\ ppc = "off"

\* no listener task is running
ListenOff ==
    /\ notify_event = FALSE /\ tick_age = 0
    /\ debounce_task = "none" /\ debounce_left = 0
    /\ poll_task = "off" /\ poll_left = 0
    /\ start_task = "off"
    /\ listener_busy = FALSE /\ drain_pc = "none" /\ drain_age = 0
    /\ queued = 0 /\ idle_age = 0
    /\ burst_age = -1 /\ burst_drains = 0 /\ burst_runs = 0 /\ burst_first_drain = -1

\* 01_ingest is not running
IngestOff ==
    /\ ipc = "off" /\ i01 = 0
    /\ cache_masks = <<>> /\ win_of = <<>> /\ zone01 = <<>>

\* the KPI block of 03_commit is not running
KpiOff ==
    /\ kpc = "off"
    /\ kpi_in = <<>>
    /\ kpi_out = <<>>

\* no function is being evaluated on its own
FunOff ==
    /\ fpc = "off"
    /\ fin = <<>>
    /\ fout = <<>>

----------------------------------------------------------------------------
(* 03_commit.py : the hour loop *)

\* 03_commit.py:37-118 with the inputs of 01_ingest.py:505-510
InitCommit ==
    /\ H \in RunParams
    /\ \E raw_oze \in {0, 1, MaxQty + 2} : soc_oze = ClampSoc0(raw_oze, H.emax_oze)
    /\ \E raw_arbi \in {0, 2, MaxQty + 2} : soc_arbi = ClampSoc0(raw_arbi, H.emax_arbi)
    /\ row = ZeroRow
    /\ cpc = "head"
    /\ QueueOff
    /\ RunOff
    /\ PropOff
    /\ ListenOff
    /\ IngestOff
    /\ KpiOff
    /\ FunOff

\* 03_commit.py:121-298  one pass of `for i in range(N)`.  surplus_net and
\* deficit_net of one hour are never both positive (01_ingest.py:425-426).
CommitHour ==
    /\ cpc = "head"
    /\ \E surplus \in Qty, deficit \in Qty, prop_dis \in PropSet, prop_ch \in PropSet :
          /\ surplus = 0 \/ deficit = 0
          /\ LET s == HourBody(H, HourStart(H, soc_oze, soc_arbi,
                                            surplus, deficit, prop_dis, prop_ch))
             IN  /\ soc_oze' = s.soc_oze
                 /\ soc_arbi' = s.soc_arbi
                 /\ row' = s.o
    /\ cpc' = "tail"
    /\ UNCHANGED <<H, queueVars, runVars, propVars, listenVars, ingestVars, kpiVars, funVars>>

\* 03_commit.py:121  the loop moves to hour i+1, whose array elements are still zero
NextHour ==
    /\ cpc = "tail"
    /\ cpc' = "head"
    /\ row' = ZeroRow
    /\ UNCHANGED <<H, soc_oze, soc_arbi, queueVars, runVars, propVars, listenVars, ingestVars, kpiVars, funVars>>

NextCommit == CommitHour \/ NextHour

----------------------------------------------------------------------------
(* 03_commit.py : the hour of scenario S4 (export cap binding) *)

\* quanta per MWh in the scenario, so that 0.5 MWh is above EPS
QuantaPerMWh == 10
\* surplus of 5 MWh, cap_grid_export_ac of 1 MWh, ARBI proposal of 0.5 MWh_AC
S4Surplus == 5 * QuantaPerMWh
S4Cap == QuantaPerMWh
S4PropDis == QuantaPerMWh \div 2

\* the scalars the scenario leaves open (03_commit.py:42-61)
S4Params ==
    [ emax_oze : {0, S4PropDis},
      emax_arbi : {S4Cap, 2 * S4Cap},
      eta_ch : {<<1, 1>>},
      eta_dis : EtaSet,
      lambda_h : LambdaSet,
      arbi_dis_to_load : BOOLEAN,
      cap_grid_export_ac : {S4Cap},
      cap_grid_import_ac : {S4Cap},
      cap_bess_charge_net : {S4PropDis, S4Surplus},
      cap_bess_discharge_net : {S4Cap, S4Surplus} ]

\* 03_commit.py:37-118  the run starts with the caps of the scenario
InitS4 ==
    /\ H \in S4Params
    /\ soc_oze \in {0, H.emax_oze}
    /\ soc_arbi \in {0, S4Cap, H.emax_arbi}
    /\ row = ZeroRow
    /\ cpc = "head"
    /\ QueueOff
    /\ RunOff
    /\ PropOff
    /\ ListenOff
    /\ IngestOff
    /\ KpiOff
    /\ FunOff

\* 03_commit.py:121-298  one pass of the loop on an hour of the scenario
CommitHourS4 ==
    /\ cpc = "head"
    /\ LET s == HourBody(H, HourStart(H, soc_oze, soc_arbi, S4Surplus, 0, S4PropDis, 0))
       IN  /\ soc_oze' = s.soc_oze
           /\ soc_arbi' = s.soc_arbi
           /\ row' = s.o
    /\ cpc' = "tail"
    /\ UNCHANGED <<H, queueVars, runVars, propVars, listenVars, ingestVars, kpiVars, funVars>>

NextS4 == CommitHourS4 \/ NextHour

----------------------------------------------------------------------------
(* listener.py : error text, locks *)

\* listener.py:513  if len(err) > 8000
ErrMax == 8000
\* listener.py:514  the appended "…" is one character, three bytes in UTF-8
EllipsisBytes == 3

\* str(e) of a raised exception: surrounding whitespace, the characters of the
\* text between, and the bytes per character of its UTF-8 encoding
MsgSet ==
    { [ws |-> 0, chars |-> 40, width |-> 1],
      [ws |-> 2, chars |-> ErrMax, width |-> 1],
      [ws |-> 0, chars |-> ErrMax + 1, width |-> 2] }

\* listener.py:512  err = (error or "").strip()
Strip(m) == [m EXCEPT !.ws = 0]

\* listener.py:513-514  err = err[:8000] + "…"; the stored text's size
Truncate(m) ==
    IF m.ws + m.chars > ErrMax
    THEN [null |-> FALSE, chars |-> ErrMax + 1,
          bytes |-> ErrMax * m.width + EllipsisBytes]
    ELSE [null |-> FALSE, chars |-> m.ws + m.chars,
          bytes |-> (m.ws + m.chars) * m.width]

\* listener.py:512-514  the text _mark_error stores
StoredError(m) == Truncate(Strip(m))

MaxOf(S) == CHOOSE x \in S : \A y \in S : y <= x

\* a row lock is held by a pick statement from its CTE picked until its
\* transaction ends (listener.py:56, 498-500)
LockedByOther(j, d) == \E e \in Disp \ {d} : dpc[e] = "locked" /\ picked[e] = j

\* mutant of Pickable: FOR UPDATE SKIP LOCKED left out of CTE picked
PickableNoLock(d) == { j \in Jobs : status[j] = "queued" }
\* listener.py:52-57  rows CTE picked may return: queued and not locked (SKIP LOCKED)
Pickable(d) == { j \in Jobs : status[j] = "queued" /\ ~LockedByOther(j, d) }

\* mutant of ToSkip: the status filter of CTE skipped left out
ToSkipAnyStatus(d) == { j \in Jobs : status[j] # "none" /\ j # picked[d] }
\* listener.py:60-64  rows CTE skipped updates: queued in the statement's
\* snapshot, still queued when their lock is obtained, and not the picked row
ToSkip(d) == { j \in snap[d] \ {picked[d]} : status[j] = "queued" }

\* the dispatchers whose row lock the statement of d waits for
WaitsOn(d) ==
    IF dpc[d] = "locked"
    THEN { e \in Disp \ {d} : dpc[e] = "locked" /\ picked[e] \in snap[d] \ {picked[d]} }
    ELSE {}

RECURSIVE WaitClosure(_, _)
WaitClosure(S, n) ==
    IF n = 0 THEN S ELSE WaitClosure(S \cup UNION { WaitsOn(e) : e \in S }, n - 1)

\* d is part of a cycle of lock waits (PostgreSQL's deadlock detector aborts one
\* of the transactions of the cycle)
InCycle(d) == d \in WaitClosure(WaitsOn(d), NumDisp)

InitQueue ==
    /\ status_check \in {EnqueueDdlStatuses, BootstrapStatuses}
    /\ status = [j \in Jobs |-> "none"]
    /\ error = [j \in Jobs |-> NoError]
    /\ picks = [j \in Jobs |-> 0]
    /\ runs = [j \in Jobs |-> 0]
    /\ run_raised = [j \in Jobs |-> FALSE]
    /\ busy = [d \in Disp |-> FALSE]
    /\ dpc = [d \in Disp |-> "idle"]
    /\ picked = [d \in Disp |-> 0]
    /\ snap = [d \in Disp |-> {}]
    /\ CommitOff
    /\ RunOff
    /\ PropOff
    /\ ListenOff
    /\ IngestOff
    /\ KpiOff
    /\ FunOff

\* params_api.py:91-112  util.enqueue_calc: INSERT ... 'queued' (and NOTIFY);
\* listener.py:520-543  _bootstrap_enqueue_once inserts the same row
Enqueue ==
    /\ \E j \in Jobs :
          /\ status[j] = "none"
          /\ \A k \in Jobs : k < j => status[k] # "none"
          /\ status' = [status EXCEPT ![j] = "queued"]
    /\ UNCHANGED <<status_check, error, picks, runs, run_raised, busy, dpc, picked, snap>>
    /\ UNCHANGED <<commitVars, runVars, propVars, listenVars, ingestVars, kpiVars, funVars>>

\* listener.py:464-467  _drain_queue entered while a drain is active: returns
DrainBusy(d) ==
    /\ busy[d]
    /\ UNCHANGED vars

\* listener.py:464-470  _drain_queue entered (startup, debounce or poll/tick)
DrainStart(d) ==
    /\ ~busy[d]
    /\ dpc[d] = "idle"
    /\ busy' = [busy EXCEPT ![d] = TRUE]
    /\ dpc' = [dpc EXCEPT ![d] = "pick"]
    /\ UNCHANGED <<status_check, status, error, picks, runs, run_raised, picked, snap>>
    /\ UNCHANGED <<commitVars, runVars, propVars, listenVars, ingestVars, kpiVars, funVars>>

\* the drain ends: return at listener.py:474 or an exception leaving the loop;
\* the finally clause clears _busy (listener.py:489-490)
DrainEnds(d) ==
    /\ busy' = [busy EXCEPT ![d] = FALSE]
    /\ dpc' = [dpc EXCEPT ![d] = "idle"]
    /\ picked' = [picked EXCEPT ![d] = 0]
    /\ snap' = [snap EXCEPT ![d] = {}]

\* listener.py:51-58, 498  the pick statement starts: CTE picked locks the
\* newest queued row that no other transaction holds
PickLock(d) ==
    /\ dpc[d] = "pick"
    /\ Pickable(d) # {}
    /\ picked' = [picked EXCEPT ![d] = MaxOf(Pickable(d))]
    /\ snap' = [snap EXCEPT ![d] = { j \in Jobs : status[j] = "queued" }]
    /\ dpc' = [dpc EXCEPT ![d] = "locked"]
    /\ UNCHANGED <<status_check, status, error, picks, runs, run_raised, busy>>
    /\ UNCHANGED <<commitVars, runVars, propVars, listenVars, ingestVars, kpiVars, funVars>>

\* listener.py:471-474, 498-501  CTE picked is empty: `q.job_id <> NULL` skips
\* nothing, no row is returned and the drain returns
PickNone(d) ==
    /\ dpc[d] = "pick"
    /\ Pickable(d) = {}
    /\ DrainEnds(d)
    /\ UNCHANGED <<status_check, status, error, picks, runs, run_raised>>
    /\ UNCHANGED <<commitVars, runVars, propVars, listenVars, ingestVars, kpiVars, funVars>>

\* listener.py:59-72, 498-501  the statement completes and commits: the other
\* queued rows become skipped, the picked row running with error NULL
PickCommit(d) ==
    /\ dpc[d] = "locked"
    /\ WaitsOn(d) = {}
    /\ ToSkip(d) # {} => "skipped" \in status_check
    /\ "running" \in status_check
    /\ status' = [j \in Jobs |-> IF j = picked[d] THEN "running"
                                 ELSE IF j \in ToSkip(d) THEN "skipped"
                                 ELSE status[j]]
    /\ error' = [error EXCEPT ![picked[d]] = NoError]
    /\ picks' = [picks EXCEPT ![picked[d]] = @ + 1]
    /\ dpc' = [dpc EXCEPT ![d] = "row"]
    /\ UNCHANGED <<status_check, runs, run_raised, busy, picked, snap>>
    /\ UNCHANGED <<commitVars, runVars, propVars, listenVars, ingestVars, kpiVars, funVars>>

\* listener.py:60-64, 471  the CHECK constraint rejects 'skipped': the statement
\* raises, its transaction is rolled back and the exception leaves _drain_queue
PickRejected(d) ==
    /\ dpc[d] = "locked"
    /\ \E j \in ToSkip(d) : ~LockedByOther(j, d)
    /\ "skipped" \notin status_check
    /\ DrainEnds(d)
    /\ UNCHANGED <<status_check, status, error, picks, runs, run_raised>>
    /\ UNCHANGED <<commitVars, runVars, propVars, listenVars, ingestVars, kpiVars, funVars>>

\* listener.py:60-64, 471  the statement is the victim of a deadlock between pick
\* statements: it raises, its transaction is rolled back and the exception
\* leaves _drain_queue
PickDeadlock(d) ==
    /\ dpc[d] = "locked"
    /\ InCycle(d)
    /\ DrainEnds(d)
    /\ UNCHANGED <<status_check, status, error, picks, runs, run_raised>>
    /\ UNCHANGED <<commitVars, runVars, propVars, listenVars, ingestVars, kpiVars, funVars>>

\* listener.py:476-482  run_calc is called for the returned row
RunStart(d) ==
    /\ dpc[d] = "row"
    /\ runs' = [runs EXCEPT ![picked[d]] = @ + 1]
    /\ dpc' = [dpc EXCEPT ![d] = "run"]
    /\ UNCHANGED <<status_check, status, error, picks, run_raised, busy, picked, snap>>
    /\ UNCHANGED <<commitVars, runVars, propVars, listenVars, ingestVars, kpiVars, funVars>>

\* listener.py:482-484, 503-508  run_calc returns; _mark_done; next pick
RunOk(d) ==
    /\ dpc[d] = "run"
    /\ "done" \in status_check
    /\ status' = [status EXCEPT ![picked[d]] = "done"]
    /\ error' = [error EXCEPT ![picked[d]] = NoError]
    /\ dpc' = [dpc EXCEPT ![d] = "pick"]
    /\ picked' = [picked EXCEPT ![d] = 0]
    /\ snap' = [snap EXCEPT ![d] = {}]
    /\ UNCHANGED <<status_check, picks, runs, run_raised, busy>>
    /\ UNCHANGED <<commitVars, runVars, propVars, listenVars, ingestVars, kpiVars, funVars>>

\* listener.py:485-488, 510-518  run_calc raises; _mark_error stores 'failed'
\* and the text, then `continue`.  If the CHECK constraint rejects 'failed',
\* _mark_error raises inside the except clause and the exception leaves
\* _drain_queue with the row unchanged.
RunRaise(d) ==
    /\ dpc[d] = "run"
    /\ run_raised' = [run_raised EXCEPT ![picked[d]] = TRUE]
    /\ \E m \in MsgSet :
          IF "failed" \in status_check
          THEN /\ status' = [status EXCEPT ![picked[d]] = "failed"]
               /\ error' = [error EXCEPT ![picked[d]] = StoredError(m)]
               /\ dpc' = [dpc EXCEPT ![d] = "pick"]
               /\ picked' = [picked EXCEPT ![d] = 0]
               /\ snap' = [snap EXCEPT ![d] = {}]
               /\ UNCHANGED busy
          ELSE /\ DrainEnds(d)
               /\ UNCHANGED <<status, error>>
    /\ UNCHANGED <<status_check, picks, runs>>
    /\ UNCHANGED <<commitVars, runVars, propVars, listenVars, ingestVars, kpiVars, funVars>>

NextQueue ==
    \/ Enqueue
    \/ \E d \in Disp : DrainBusy(d)
    \/ \E d \in Disp : DrainStart(d)
    \/ \E d \in Disp : PickLock(d)
    \/ \E d \in Disp : PickNone(d)
    \/ \E d \in Disp : PickCommit(d)
    \/ \E d \in Disp : PickRejected(d)
    \/ \E d \in Disp : PickDeadlock(d)
    \/ \E d \in Disp : RunStart(d)
    \/ \E d \in Disp : RunOk(d)
    \/ \E d \in Disp : RunRaise(d)

----------------------------------------------------------------------------
(* runner.py : run_calc;  05_persist.py : persist_all *)

\* mutant of PersistInTxn: the persist_stage functions called with in_txn=False
PersistNotInTxn == FALSE
\* 05_persist.py:978-1017  persist_all passes in_txn=True to every step
PersistInTxn == TRUE

\* the operations of persist_all the run has executed in its open block
Done(r) == { wlog[r][i] : i \in 1 .. Len(wlog[r]) }

\* the run holds an ACCESS EXCLUSIVE lock on stage tables: TRUNCATE / DROP TABLE
\* (05_persist.py:304,308) or DROP INDEX (05_persist.py:985-986), until its
\* transaction ends
HoldsExclusive(r) ==
    /\ rpc[r] = "persist"
    /\ \/ "clear" \in Done(r) /\ clear_mode \in {"truncate", "drop"}
       \/ "drop_idx" \in Done(r)

\* the run holds some lock on a stage table (rows deleted or inserted, ANALYZE)
HoldsLock(r) ==
    /\ rpc[r] = "persist"
    /\ \/ "clear" \in Done(r) /\ clear_mode # "none"
       \/ Done(r) \ {"clear"} # {}

\* the next operation of persist_all can obtain its table locks
CanLock(r, op) ==
    \A o \in Runs \ {r} :
        /\ ~HoldsExclusive(o)
        /\ (op = "drop_idx" \/ (op = "clear" /\ clear_mode \in {"truncate", "drop"}))
               => ~HoldsLock(o)
        /\ op = "analyze" => ~(rpc[o] = "persist" /\ "analyze" \in Done(o))

\* the committed rows of a stage table after the connection of r commits
\* (05_persist.py:299-313 for the pending clear)
RowsAfterCommit(r, tb) ==
    LET kept == IF "clear" \in pending[r]
                THEN IF clear_mode \in {"truncate", "drop"} THEN {}
                     ELSE IF clear_mode = "delete" THEN visible[tb] \ {r}
                     ELSE visible[tb]
                ELSE visible[tb]
    IN  kept \cup (IF tb \in pending[r] THEN {r} ELSE {})

\* con.commit() (runner.py:262,272,285): what the connection wrote becomes visible
Commit(r) ==
    /\ visible' = [tb \in StageTables |-> RowsAfterCommit(r, tb)]
    /\ row_commits' = [row_commits EXCEPT ![r] =
                          IF pending[r] \cap StageTables # {} THEN @ + 1 ELSE @]
    /\ pending' = [pending EXCEPT ![r] = {}]
    /\ txn' = [txn EXCEPT ![r] = "idle"]

\* run_calc raises (runner.py:330,347,...); the pool rolls the connection back
\* when it is returned (listener.py:481)
Raise(r) ==
    /\ rpc' = [rpc EXCEPT ![r] = "raised"]
    /\ failed_at' = [failed_at EXCEPT ![r] = cur_stage[r]]

InitRun ==
    /\ clear_mode \in ClearModes
    /\ reindex \in BOOLEAN
    /\ rpc = [r \in Runs |-> "begin"]
    /\ cur_stage = [r \in Runs |-> 1]
    /\ stage_status = [r \in Runs |-> [s \in StageIx |-> "none"]]
    /\ txn = [r \in Runs |-> "idle"]
    /\ pending = [r \in Runs |-> {}]
    /\ visible = [tb \in StageTables |-> {}]
    /\ wlog = [r \in Runs |-> <<>>]
    /\ row_commits = [r \in Runs |-> 0]
    /\ failed_at = [r \in Runs |-> 0]
    /\ CommitOff
    /\ QueueOff
    /\ PropOff
    /\ ListenOff
    /\ IngestOff
    /\ KpiOff
    /\ FunOff

\* runner.py:250-262  _stage_start: the stage row is 'running', committed
StageStart(r) ==
    /\ rpc[r] = "begin"
    /\ stage_status' = [stage_status EXCEPT ![r][cur_stage[r]] = "running"]
    /\ Commit(r)
    /\ rpc' = [rpc EXCEPT ![r] = "work"]
    /\ UNCHANGED <<clear_mode, reindex, cur_stage, wlog, failed_at>>
    /\ UNCHANGED <<commitVars, queueVars, propVars, listenVars, ingestVars, kpiVars, funVars>>

\* runner.py:264-272  the stage's work and _stage_done succeed: the stage row
\* is 'done', committed; run_calc goes on to the next stage or returns
StageDone(r) ==
    /\ \/ rpc[r] = "work" /\ ALLOWED_STAGE[cur_stage[r]] # "05"
       \/ rpc[r] = "persist" /\ wlog[r] = PersistOrder
    /\ stage_status' = [stage_status EXCEPT ![r][cur_stage[r]] = "done"]
    /\ Commit(r)
    /\ IF cur_stage[r] = Len(ALLOWED_STAGE)
       THEN /\ rpc' = [rpc EXCEPT ![r] = "ok"]
            /\ UNCHANGED cur_stage
       ELSE /\ rpc' = [rpc EXCEPT ![r] = "begin"]
            /\ cur_stage' = [cur_stage EXCEPT ![r] = @ + 1]
    /\ UNCHANGED <<clear_mode, reindex, wlog, failed_at>>
    /\ UNCHANGED <<commitVars, queueVars, propVars, listenVars, ingestVars, kpiVars, funVars>>

\* runner.py:274-285, 327-330  the stage's work raises with the connection usable
\* (a preflight or the validator raising, 05_persist.py:963-964):
\* _stage_fail stores 'failed' and commits; the exception is raised again
StagePyError(r) ==
    /\ rpc[r] = "work"
    /\ stage_status' = [stage_status EXCEPT ![r][cur_stage[r]] = "failed"]
    /\ Commit(r)
    /\ Raise(r)
    /\ UNCHANGED <<clear_mode, reindex, cur_stage, wlog>>
    /\ UNCHANGED <<commitVars, queueVars, propVars, listenVars, ingestVars, kpiVars, funVars>>

\* runner.py:252-261, 279-284, 327-330  a statement of the stage (of _stage_start,
\* of the stage's work outside persist_all's block, or of _stage_done) fails:
\* the connection's transaction is aborted, the UPDATE of _stage_fail is
\* refused and its exception leaves run_calc; nothing is committed
StageDbError(r) ==
    /\ \/ rpc[r] \in {"begin", "work"}
       \/ rpc[r] = "persist" /\ wlog[r] = PersistOrder
    /\ txn' = [txn EXCEPT ![r] = "inerror"]
    /\ pending' = [pending EXCEPT ![r] = {}]
    /\ Raise(r)
    /\ UNCHANGED <<clear_mode, reindex, cur_stage, stage_status, visible, wlog, row_commits>>
    /\ UNCHANGED <<commitVars, queueVars, propVars, listenVars, ingestVars, kpiVars, funVars>>

\* 05_persist.py:955-975  persist_all: ensure_tables opens the connection's
\* transaction, so `async with con.transaction()` is a savepoint
PersistEnter(r) ==
    /\ rpc[r] = "work" /\ ALLOWED_STAGE[cur_stage[r]] = "05"
    /\ rpc' = [rpc EXCEPT ![r] = "persist"]
    /\ txn' = [txn EXCEPT ![r] = "intrans"]
    /\ UNCHANGED <<clear_mode, reindex, cur_stage, stage_status, pending, visible, wlog,
                   row_commits, failed_at>>
    /\ UNCHANGED <<commitVars, queueVars, propVars, listenVars, ingestVars, kpiVars, funVars>>

\* 05_persist.py:977-1026  the next operation of persist_all's block
PersistStep(r) ==
    /\ rpc[r] = "persist"
    /\ Len(wlog[r]) < Len(PersistOrder)
    /\ LET op == PersistOrder[Len(wlog[r]) + 1]
           written == IF op \in StageTables \cup {"clear"} THEN {op} ELSE {}
       IN  /\ CanLock(r, op)
           /\ wlog' = [wlog EXCEPT ![r] = Append(@, op)]
           /\ IF PersistInTxn \/ op \notin StageTables
              THEN /\ pending' = [pending EXCEPT ![r] = @ \cup written]
                   /\ UNCHANGED <<visible, row_commits>>
              ELSE /\ visible' = [tb \in StageTables |->
                                     IF tb = op THEN RowsAfterCommit(r, tb) \cup {r}
                                     ELSE RowsAfterCommit(r, tb)]
                   /\ row_commits' = [row_commits EXCEPT ![r] = @ + 1]
                   /\ pending' = [pending EXCEPT ![r] = {}]
    /\ UNCHANGED <<clear_mode, reindex, rpc, cur_stage, stage_status, txn, failed_at>>
    /\ UNCHANGED <<commitVars, queueVars, propVars, listenVars, ingestVars, kpiVars, funVars>>

\* 05_persist.py:971, runner.py:410-413  an operation of the block raises (a
\* lock timeout, a failed statement, a Python error): the savepoint is rolled
\* back, _stage_fail stores 'failed' and commits, the exception is raised again
PersistError(r) ==
    /\ rpc[r] = "persist"
    /\ Len(wlog[r]) < Len(PersistOrder)
    /\ stage_status' = [stage_status EXCEPT ![r][cur_stage[r]] = "failed"]
    /\ pending' = [pending EXCEPT ![r] = {}]
    /\ txn' = [txn EXCEPT ![r] = "idle"]
    /\ Raise(r)
    /\ UNCHANGED <<clear_mode, reindex, cur_stage, visible, wlog, row_commits>>
    /\ UNCHANGED <<commitVars, queueVars, propVars, listenVars, ingestVars, kpiVars, funVars>>

NextRun ==
    \/ \E r \in Runs : StageStart(r)
    \/ \E r \in Runs : StageDone(r)
    \/ \E r \in Runs : StagePyError(r)
    \/ \E r \in Runs : StageDbError(r)
    \/ \E r \in Runs : PersistEnter(r)
    \/ \E r \in Runs : PersistStep(r)
    \/ \E r \in Runs : PersistError(r)

----------------------------------------------------------------------------
(* 02_proposer.py : inputs *)

\* 02_proposer.py:97  EPS = 1e-12, the same tolerance as in 03_commit.py
EPS02 == EPS

\* index of the hours of the series (02_proposer.py:185-186)
Hours02 == 1 .. NumHours
\* the calendar days of the series
Days02 == {1, 2}
\* date_key per hour (01_ingest.py:439): one day, or a second day that starts
\* after the first or the second hour
DateKeys == { [h \in Hours02 |-> 1],
              [h \in Hours02 |-> IF h <= 1 THEN 1 ELSE 2],
              [h \in Hours02 |-> IF h <= 2 THEN 1 ELSE 2] }
\* price_import_pln_mwh and price_export_pln_mwh per hour (01_ingest.py:459-460)
PriceImportSet == {1, 3}
PriceExportSet == {2, 4}
\* int(cycles_per_day) (02_proposer.py:220)
CyclesSet == {0, 1, 2}

\* storage, caps and economic policy of a run: no bonus, no binding cap,
\* eta = 1, empty ARBI at the start (01_ingest.py:463-509)
BaseSetup ==
    [ emax_arbi_mwh |-> 4, eta_ch_frac |-> <<1, 1>>, eta_dis_frac |-> <<1, 1>>,
      cap_grid_import_ac_mwh |-> 8, cap_grid_export_ac_mwh |-> 8,
      cap_bess_charge_net_mwh |-> 8, cap_bess_discharge_net_mwh |-> 8,
      base_min_profit_pln_mwh |-> 0,
      soc_low_threshold |-> 0, soc_high_threshold |-> 100,
      bonus_hrs_ch |-> {}, bonus_hrs_dis |-> {},
      bonus_ch_window |-> 0, bonus_dis_window |-> 0,
      bonus_low_soc_ch |-> 0, bonus_high_soc_dis |-> 0,
      soc0_arbi_mwh |-> 0 ]

\* the setups the proposer is run with
Setups02 ==
    { BaseSetup,
      [BaseSetup EXCEPT !.soc0_arbi_mwh = 2],
      [BaseSetup EXCEPT !.soc0_arbi_mwh = 4],
      [BaseSetup EXCEPT !.cap_grid_export_ac_mwh = 2, !.soc0_arbi_mwh = 2],
      [BaseSetup EXCEPT !.cap_grid_export_ac_mwh = 2],
      [BaseSetup EXCEPT !.eta_ch_frac = <<1, 2>>, !.eta_dis_frac = <<1, 2>>,
                        !.cap_bess_charge_net_mwh = 2, !.cap_bess_discharge_net_mwh = 2],
      [BaseSetup EXCEPT !.cap_grid_import_ac_mwh = 2, !.cap_grid_export_ac_mwh = 2],
      [BaseSetup EXCEPT !.base_min_profit_pln_mwh = 2,
                        !.bonus_hrs_ch = {1}, !.bonus_ch_window = 2,
                        !.bonus_hrs_dis = {2}, !.bonus_dis_window = 4],
      [BaseSetup EXCEPT !.soc_low_threshold = 50, !.soc_high_threshold = 50,
                        !.bonus_low_soc_ch = 2, !.bonus_high_soc_dis = 2,
                        !.cap_grid_import_ac_mwh = 2] }

\* the calendar, the prices and the cycle policy of a run
Series02 ==
    [ date_key : DateKeys,
      price_import : [Hours02 -> PriceImportSet],
      price_export : [Hours02 -> PriceExportSet],
      cycles_per_day : CyclesSet,
      allow_carry_over : BOOLEAN,
      force_order : BOOLEAN ]

\* one dict H built from two groups of keys
MergeKeys(f, g) ==
    [k \in (DOMAIN f) \cup (DOMAIN g) |-> IF k \in DOMAIN f THEN f[k] ELSE g[k]]

\* 02_proposer.py:212-213  effective AC caps (GRID and BESS with eta)
CapEffChAc(Hh) ==
    Min(Hh.cap_grid_import_ac_mwh, DivFrac(Hh.cap_bess_charge_net_mwh, Hh.eta_ch_frac))
CapEffDisAc(Hh) ==
    Min(Hh.cap_grid_export_ac_mwh, MulFrac(Hh.cap_bess_discharge_net_mwh, Hh.eta_dis_frac))

----------------------------------------------------------------------------
(* 02_proposer.py : _build_daily_pairs *)

MinOf(S) == CHOOSE x \in S : \A y \in S : x <= y

\* 02_proposer.py:154-155  idx = hours[date_key == day]
HoursOfDay(Hh, day) == {h \in DOMAIN Hh.date_key : Hh.date_key[h] = day}

\* 02_proposer.py:160  idx[np.argsort(price_import[idx])][:K] as a set (it is
\* sorted by time at line 165).  np.argsort's default sort is not stable, so
\* among equal prices any hours may be the ones kept.
LowCands(Hh, idx) ==
    LET n == Min(Hh.cycles_per_day, Cardinality(idx))
    IN  { S \in SUBSET idx :
            /\ Cardinality(S) = n
            /\ \A a \in S, b \in idx \ S : Hh.price_import[a] <= Hh.price_import[b] }

\* 02_proposer.py:162  idx[np.argsort(-price_export[idx])][:K] as a sequence,
\* most expensive first; equal prices in any order
HighCands(Hh, idx) ==
    LET n == Min(Hh.cycles_per_day, Cardinality(idx))
    IN  { q \in [1 .. n -> idx] :
            /\ \A a, b \in 1 .. n : a < b =>
                  /\ q[a] # q[b]
                  /\ Hh.price_export[q[a]] >= Hh.price_export[q[b]]
            /\ \A a \in 1 .. n, h \in idx :
                  (\A b \in 1 .. n : q[b] # h) =>
                      Hh.price_export[q[a]] >= Hh.price_export[h] }

\* mutant of FreeHighs: a high already used by an earlier low is offered again
FreeHighsReused(cand_high, used_high, i_low) ==
    {k \in DOMAIN cand_high : cand_high[k] > i_low}
\* 02_proposer.py:169  positions of cand_high that are unused and later than i_low
FreeHighs(cand_high, used_high, i_low) ==
    {k \in DOMAIN cand_high : cand_high[k] \notin used_high /\ cand_high[k] > i_low}

\* 02_proposer.py:166-175  the greedy loop over cand_low in time order;
\* maps holds the two dicts k_low_by_hour and k_high_by_hour
RECURSIVE GreedyPairs(_, _, _, _)
GreedyPairs(cand_low, cand_high, used_high, maps) ==
    IF cand_low = {} THEN maps
    ELSE LET i_low == MinOf(cand_low)
             free == FreeHighs(cand_high, used_high, i_low)
         IN  IF free = {}
             THEN GreedyPairs(cand_low \ {i_low}, cand_high, used_high, maps)
             ELSE LET i_high == cand_high[MinOf(free)]
                  IN  GreedyPairs(cand_low \ {i_low}, cand_high, used_high \cup {i_high},
                                  [ low |-> [maps.low EXCEPT ![i_low] = i_high],
                                    high |-> [maps.high EXCEPT ![i_high] = i_low] ])

\* 02_proposer.py:147-177  `for day in np.unique(date_key)`: every pair of
\* dicts the function can return for the inputs Hh
RECURSIVE BuildDailyPairs(_, _, _)
BuildDailyPairs(Hh, days, maps) ==
    IF days = {} THEN {maps}
    ELSE LET day == MinOf(days)
             idx == HoursOfDay(Hh, day)
         IN  IF idx = {}
             THEN BuildDailyPairs(Hh, days \ {day}, maps)
             ELSE UNION { BuildDailyPairs(Hh, days \ {day},
                                          GreedyPairs(S, q, {}, maps)) :
                          <<S, q>> \in LowCands(Hh, idx) \X HighCands(Hh, idx) }

NoPairs == [ low |-> [h \in Hours02 |-> 0], high |-> [h \in Hours02 |-> 0] ]

----------------------------------------------------------------------------
(* 02_proposer.py : run *)

\* 02_proposer.py:185-275  the state before _build_daily_pairs is called
InitProp ==
    /\ \E se \in Series02, su \in Setups02 : H02 = MergeKeys(se, su)
    /\ k_low_by_hour = NoPairs.low
    /\ k_high_by_hour = NoPairs.high
    /\ soc_curr = H02.soc0_arbi_mwh
    /\ pending_arbi_net = H02.soc0_arbi_mwh
    /\ cycles_used = [d \in Days02 |-> 0]
    /\ prev_day = 0
    /\ out02 = <<>>
    /\ ppc = "pairs"
    /\ CommitOff
    /\ QueueOff
    /\ RunOff
    /\ ListenOff
    /\ IngestOff
    /\ KpiOff
    /\ FunOff

\* 02_proposer.py:246
BuildPairs ==
    /\ ppc = "pairs"
    /\ \E maps \in BuildDailyPairs(H02, Days02, NoPairs) :
          /\ k_low_by_hour' = maps.low
          /\ k_high_by_hour' = maps.high
    /\ ppc' = "loop"
    /\ UNCHANGED <<H02, soc_curr, pending_arbi_net, cycles_used, prev_day, out02>>
    /\ UNCHANGED <<commitVars, queueVars, runVars, listenVars, ingestVars, kpiVars, funVars>>

\* mutant of CloseCycle: a closed cycle is counted twice
CloseCycleTwice(cycles, pend) == IF pend <= EPS02 THEN cycles + 2 ELSE cycles
\* 02_proposer.py:378-379  the cycle closes when the discharge used up pending
CloseCycle(cycles, pend) == IF pend <= EPS02 THEN cycles + 1 ELSE cycles

\* mutant of ThrLow: the SOC bonus counts only in an hour of the bonus window
ThrLowWindowOnly(Hh, in_ch_bonus, low_soc_bonus_hit) ==
    Hh.base_min_profit_pln_mwh
      + (IF in_ch_bonus THEN Hh.bonus_ch_window ELSE 0)
      + (IF in_ch_bonus /\ low_soc_bonus_hit THEN Hh.bonus_low_soc_ch ELSE 0)
\* 02_proposer.py:312  thr_l: the base and the two bonuses, each on its own condition
ThrLow(Hh, in_ch_bonus, low_soc_bonus_hit) ==
    Hh.base_min_profit_pln_mwh
      + (IF in_ch_bonus THEN Hh.bonus_ch_window ELSE 0)
      + (IF low_soc_bonus_hit THEN Hh.bonus_low_soc_ch ELSE 0)

\* 02_proposer.py:301, 303  soc_curr <= emax * (soc_low_threshold_pct / 100.0)
LowSocBonusHit(Hh, soc) == soc <= MulFrac(Hh.emax_arbi_mwh, <<Hh.soc_low_threshold, 100>>)

\* 02_proposer.py:343  dec_ch_base of a low hour
DecChBase(dk, thr_l, headroom, cycles, K) == dk - thr_l >= 0 /\ headroom > EPS02 /\ cycles < K

\* mutant of PendingAtDayStart: pending is carried over whatever the policy
PendingCarried(Hh, st, day) == st.pending_arbi_net
\* 02_proposer.py:283-287  pending at the start of an hour: reset at the
\* first hour of a new date_key unless allow_carry_over (prev_day None is 0)
PendingAtDayStart(Hh, st, day) ==
    IF (st.prev_day = 0 \/ day # st.prev_day) /\ ~Hh.allow_carry_over
    THEN 0 ELSE st.pending_arbi_net

\* mutant of CanDis: force_order is not looked at
CanDisAnyOrder(Hh, soc, pend) == Min(DivFrac(CapEffDisAc(Hh), Hh.eta_dis_frac), soc)
\* 02_proposer.py:360-366  NET energy that can be discharged in the hour
CanDis(Hh, soc, pend) ==
    LET can_dis == Min(DivFrac(CapEffDisAc(Hh), Hh.eta_dis_frac), soc)
    IN  IF Hh.force_order THEN Min(can_dis, pend) ELSE can_dis

\* 02_proposer.py:282-384  the body of `for i in range(N)` for hour i, from
\* the loop state st = [soc_curr, pending_arbi_net, cycles (of the hour's day),
\* prev_day]; the result holds the new loop state and the i-th array elements
HourBody02(Hh, k_low, k_high, st, i) ==
    LET day == Hh.date_key[i]
        \* lines 283-287
        pend0 == PendingAtDayStart(Hh, st, day)
        \* lines 290-291
        is_low == k_low[i] # 0
        is_high == k_high[i] # 0
        \* lines 294-305
        in_ch_bonus == i \in Hh.bonus_hrs_ch
        in_dis_bonus == i \in Hh.bonus_hrs_dis
        emax == Hh.emax_arbi_mwh
        headroom == Max(0, emax - st.soc_curr)
        low_soc_bonus_hit == LowSocBonusHit(Hh, st.soc_curr)
        high_soc_bonus_hit == st.soc_curr >= MulFrac(emax, <<Hh.soc_high_threshold, 100>>)
        \* lines 312-313
        thr_l == ThrLow(Hh, in_ch_bonus, low_soc_bonus_hit)
        thr_h == Hh.base_min_profit_pln_mwh
                   + (IF in_dis_bonus THEN Hh.bonus_dis_window ELSE 0)
                   + (IF high_soc_bonus_hit THEN Hh.bonus_high_soc_dis ELSE 0)
        \* lines 325-335; used only when is_low or is_high
        il == IF is_low THEN i ELSE k_high[i]
        ih == IF is_low THEN k_low[i] ELSE i
        dk == Hh.price_export[ih] - Hh.price_import[il]
        K == Hh.cycles_per_day
        \* lines 341-356
        dec_ch_base == is_low /\ DecChBase(dk, thr_l, headroom, st.cycles, K)
        charge_net == Min(MulFrac(CapEffChAc(Hh), Hh.eta_ch_frac), headroom)
        dec_ch == dec_ch_base /\ charge_net > EPS02
        soc1 == IF dec_ch THEN Min(emax, st.soc_curr + charge_net) ELSE st.soc_curr
        pend1 == IF dec_ch THEN pend0 + charge_net ELSE pend0
        \* lines 359-379
        can_dis == CanDis(Hh, soc1, pend1)
        dec_dis == is_high /\ dk - thr_h >= 0 /\ can_dis > EPS02 /\ st.cycles < K
        soc2 == IF dec_dis THEN Max(0, soc1 - can_dis) ELSE soc1
        pend2 == IF dec_dis THEN Max(0, pend1 - can_dis) ELSE pend1
        cyc2 == IF dec_dis THEN CloseCycle(st.cycles, pend2) ELSE st.cycles
    IN  [ soc_curr |-> soc2, pending_arbi_net |-> pend2, cycles |-> cyc2, prev_day |-> day,
          \* soc_curr and pending_arbi_net as step 8) finds them (after line 356)
          soc_after_ch |-> soc1, pending_after_ch |-> pend1,
          \* pending_arbi_net after the day boundary (after line 287)
          pending_at_start |-> pend0,
          o |-> [ prop_arbi_ch_from_grid_ac_mwh |->
                      IF dec_ch THEN DivFrac(charge_net, Hh.eta_ch_frac) ELSE 0,
                  prop_arbi_dis_to_grid_ac_mwh |->
                      IF dec_dis THEN MulFrac(can_dis, Hh.eta_dis_frac) ELSE 0,
                  dec_ch |-> dec_ch, dec_dis |-> dec_dis,
                  dec_ch_base |-> dec_ch_base, dec_dis_base |-> dec_dis,
                  thr_low |-> thr_l, thr_high |-> thr_h,
                  \* NaN is the empty set, a number x is {x}
                  delta_k |-> IF is_low \/ is_high THEN {dk} ELSE {},
                  pending_arbi_net_mwh |-> pend2, soc_arbi_sim_mwh |-> soc2,
                  in_ch_bonus |-> in_ch_bonus, in_dis_bonus |-> in_dis_bonus,
                  low_soc_bonus_hit |-> low_soc_bonus_hit,
                  high_soc_bonus_hit |-> high_soc_bonus_hit,
                  cycles_used_today |-> cyc2,
                  pair_low_hour |-> IF is_low \/ is_high THEN il ELSE -1,
                  pair_high_hour |-> IF is_low \/ is_high THEN ih ELSE -1 ] ]

\* 02_proposer.py:280  one pass of `for i in range(N)`
ProposeHour ==
    /\ ppc = "loop"
    /\ Len(out02) < NumHours
    /\ LET i == Len(out02) + 1
           day == H02.date_key[i]
           s == HourBody02(H02, k_low_by_hour, k_high_by_hour,
                           [ soc_curr |-> soc_curr, pending_arbi_net |-> pending_arbi_net,
                             cycles |-> cycles_used[day], prev_day |-> prev_day ], i)
       IN  /\ soc_curr' = s.soc_curr
           /\ pending_arbi_net' = s.pending_arbi_net
           /\ cycles_used' = [cycles_used EXCEPT ![day] = s.cycles]
           /\ prev_day' = s.prev_day
           /\ out02' = Append(out02, s.o)
    /\ UNCHANGED <<H02, k_low_by_hour, k_high_by_hour, ppc>>
    /\ UNCHANGED <<commitVars, queueVars, runVars, listenVars, ingestVars, kpiVars, funVars>>

NextProp == BuildPairs \/ ProposeHour

----------------------------------------------------------------------------
(* listener.py : the tasks of one CalcListener, with time *)

\* listener.py:262  DEBOUNCE_SECONDS, default 2.0
DebounceSec == 2
\* listener.py:259  CALC_POLL_SEC, default 3.0
PollSec == 3
\* listener.py:265  PERIODIC_TICK_SEC, default 60.0
TickSec == 60

\* the task that awaits the active _drain_queue call
DrainOwner ==
    IF debounce_task = "drain" THEN "debounce"
    ELSE IF poll_task \in {"drain_notify", "drain_tick"} THEN poll_task
    ELSE IF start_task = "drain" THEN "start"
    ELSE "none"

\* the drain is made because NOTIFY arrived (listener.py:433, 448-450)
ForNotify(owner) == owner \in {"debounce", "drain_notify"}

\* listener.py:284-285, 341-355  start() has created _listen_loop and
\* _poll_loop and is about to make its first drain; _last_tick_ts dates from
\* the construction of the listener
InitListen ==
    /\ notify_event = FALSE
    /\ tick_age \in {0, TickSec}
    /\ debounce_task = "none" /\ debounce_left = 0
    /\ poll_task = "sleep" /\ poll_left = 0
    /\ start_task = "pending"
    /\ listener_busy = FALSE /\ drain_pc = "none" /\ drain_age = 0
    /\ queued \in 0 .. 1
    /\ idle_age = 0
    /\ burst_age = -1 /\ burst_drains = 0 /\ burst_runs = 0 /\ burst_first_drain = -1
    /\ CommitOff
    /\ QueueOff
    /\ RunOff
    /\ PropOff
    /\ IngestOff
    /\ KpiOff
    /\ FunOff

\* mutant of Busy: _drain_queue without the test of _busy
BusyNever == FALSE
\* listener.py:464-466  `if self._busy: return` at the entry of _drain_queue;
\* no await stands between this test and `self._busy = True` (line 467)
Busy == listener_busy

\* listener.py:464-469  _drain_queue finds _busy clear and starts draining;
\* the drains made for NOTIFY are counted for the burst
BeginDrain(owner) ==
    /\ listener_busy' = TRUE
    /\ drain_pc' = "pick"
    /\ drain_age' = 0
    /\ idle_age' = 0
    /\ burst_drains' = IF ForNotify(owner) THEN Min(burst_drains + 1, 2) ELSE burst_drains
    /\ burst_first_drain' = IF ForNotify(owner) /\ burst_first_drain = -1
                            THEN burst_age ELSE burst_first_drain

\* a NOTIFY opens a new burst when it arrives later than DebounceSec after the
\* first NOTIFY of the last burst (at DebounceSec exactly: after the sleep
\* of _debounced_drain has ended)
NewBurst ==
    \/ burst_age = -1
    \/ burst_age > DebounceSec
    \/ burst_age = DebounceSec /\ debounce_task # "sleep"

\* params_api.py:98-108 and listener.py:399-412  util.enqueue_calc inserts a
\* queued row and sends NOTIFY; _listen_loop receives it
Notify ==
    /\ poll_task # "off"
    /\ queued < MaxQueued
    /\ queued' = queued + 1
    /\ notify_event' = TRUE
    /\ IF debounce_task = "none"
       THEN debounce_task' = "sleep" /\ debounce_left' = DebounceSec
       ELSE UNCHANGED <<debounce_task, debounce_left>>
    /\ tick_age' = 0
    /\ IF NewBurst
       THEN burst_age' = 0 /\ burst_drains' = 0 /\ burst_runs' = 0 /\ burst_first_drain' = -1
       ELSE UNCHANGED <<burst_age, burst_drains, burst_runs, burst_first_drain>>
    /\ UNCHANGED <<poll_task, poll_left, start_task, listener_busy, drain_pc, drain_age,
                   idle_age>>
    /\ UNCHANGED <<commitVars, queueVars, runVars, propVars, ingestVars, kpiVars, funVars>>

\* listener.py:432-438  the sleep of _debounced_drain is over
DebounceWake ==
    /\ debounce_task = "sleep" /\ debounce_left = 0
    /\ IF Busy
       THEN /\ notify_event' = FALSE
            /\ tick_age' = 0
            /\ debounce_task' = "none"
            /\ UNCHANGED <<listener_busy, drain_pc, drain_age, idle_age, burst_drains,
                           burst_first_drain>>
       ELSE /\ BeginDrain("debounce")
            /\ debounce_task' = "drain"
            /\ UNCHANGED <<notify_event, tick_age>>
    /\ UNCHANGED <<debounce_left, poll_task, poll_left, start_task, queued, burst_age,
                   burst_runs>>
    /\ UNCHANGED <<commitVars, queueVars, runVars, propVars, ingestVars, kpiVars, funVars>>

\* listener.py:446-460  one pass of _poll_loop up to its first await
PollWake ==
    /\ poll_task = "sleep" /\ poll_left = 0
    /\ IF notify_event
       THEN IF Busy
            THEN /\ notify_event' = FALSE
                 /\ tick_age' = 0
                 /\ poll_left' = PollSec
                 /\ UNCHANGED <<poll_task, listener_busy, drain_pc, drain_age, idle_age,
                                burst_drains, burst_first_drain>>
            ELSE /\ BeginDrain("drain_notify")
                 /\ poll_task' = "drain_notify"
                 /\ UNCHANGED <<notify_event, tick_age, poll_left>>
       ELSE IF TickSec > 0 /\ tick_age >= TickSec
            THEN IF Busy
                 THEN /\ tick_age' = 0
                      /\ poll_left' = PollSec
                      /\ UNCHANGED <<notify_event, poll_task, listener_busy, drain_pc,
                                     drain_age, idle_age, burst_drains, burst_first_drain>>
                 ELSE /\ BeginDrain("drain_tick")
                      /\ poll_task' = "drain_tick"
                      /\ UNCHANGED <<notify_event, tick_age, poll_left>>
            ELSE /\ poll_left' = PollSec
                 /\ UNCHANGED <<notify_event, tick_age, poll_task, listener_busy, drain_pc,
                                drain_age, idle_age, burst_drains, burst_first_drain>>
    /\ UNCHANGED <<debounce_task, debounce_left, start_task, queued, burst_age, burst_runs>>
    /\ UNCHANGED <<commitVars, queueVars, runVars, propVars, ingestVars, kpiVars, funVars>>

\* listener.py:355  the drain of start()
StartDrain ==
    /\ start_task = "pending"
    /\ IF Busy
       THEN /\ start_task' = "done"
            /\ UNCHANGED <<listener_busy, drain_pc, drain_age, idle_age, burst_drains,
                           burst_first_drain>>
       ELSE /\ BeginDrain("start")
            /\ start_task' = "drain"
    /\ UNCHANGED <<notify_event, tick_age, debounce_task, debounce_left, poll_task, poll_left,
                   queued, burst_age, burst_runs>>
    /\ UNCHANGED <<commitVars, queueVars, runVars, propVars, ingestVars, kpiVars, funVars>>

\* listener.py:489-490 and the code of the caller that follows the call:
\* 434-438 (_debounced_drain), 451-452, 456, 457-460 (_poll_loop), 356 (start).
\* An exception of the drain of start() leaves _amain (listener.py:575) and
\* the process ends.
EndDrain(raised) ==
    LET owner == DrainOwner
        ends == owner = "start" /\ raised
    IN  /\ listener_busy' = FALSE
        /\ drain_pc' = "none"
        /\ drain_age' = 0
        /\ idle_age' = 0
        /\ notify_event' = IF owner = "debounce" \/ (owner = "drain_notify" /\ ~raised)
                           THEN FALSE ELSE notify_event
        /\ tick_age' = IF owner = "debounce" \/ (owner \in {"drain_notify", "drain_tick"} /\ ~raised)
                       THEN 0 ELSE tick_age
        /\ debounce_task' = IF owner = "debounce" \/ ends THEN "none" ELSE debounce_task
        /\ poll_task' = IF ends THEN "off"
                        ELSE IF owner \in {"drain_notify", "drain_tick"} THEN "sleep"
                        ELSE poll_task
        /\ poll_left' = IF owner \in {"drain_notify", "drain_tick"} THEN PollSec ELSE poll_left
        /\ start_task' = IF ends THEN "off" ELSE IF owner = "start" THEN "done" ELSE start_task
        /\ UNCHANGED <<debounce_left, burst_age, burst_drains, burst_first_drain>>

\* listener.py:470-482  _pick_one_job: no queued row ends the drain; otherwise
\* the newest queued row is set running, the others skipped, and run_calc starts
DrainPick ==
    /\ listener_busy /\ drain_pc = "pick"
    /\ IF queued = 0
       THEN EndDrain(FALSE) /\ UNCHANGED <<queued, burst_runs>>
       ELSE /\ queued' = 0
            /\ drain_pc' = "run"
            /\ burst_runs' = IF ForNotify(DrainOwner) THEN Min(burst_runs + 1, 2) ELSE burst_runs
            /\ UNCHANGED <<notify_event, tick_age, debounce_task, debounce_left, poll_task,
                           poll_left, start_task, listener_busy, drain_age, idle_age,
                           burst_age, burst_drains, burst_first_drain>>
    /\ UNCHANGED <<commitVars, queueVars, runVars, propVars, ingestVars, kpiVars, funVars>>

\* listener.py:482-488  run_calc returned or raised and the row was marked
DrainRunEnd ==
    /\ listener_busy /\ drain_pc = "run"
    /\ drain_pc' = "pick"
    /\ UNCHANGED <<notify_event, tick_age, debounce_task, debounce_left, poll_task, poll_left,
                   start_task, listener_busy, drain_age, queued, idle_age,
                   burst_age, burst_drains, burst_runs, burst_first_drain>>
    /\ UNCHANGED <<commitVars, queueVars, runVars, propVars, ingestVars, kpiVars, funVars>>

\* listener.py:471, 486, 489-490  _pick_one_job or _mark_error raises and the
\* exception leaves _drain_queue
DrainRaise ==
    /\ listener_busy
    /\ EndDrain(TRUE)
    /\ UNCHANGED <<queued, burst_runs>>
    /\ UNCHANGED <<commitVars, queueVars, runVars, propVars, ingestVars, kpiVars, funVars>>

\* one second passes; a sleep that is over and a call that does not wait
\* come first, and a drain takes at most MaxDrainTime
Tick ==
    /\ poll_task # "off"
    /\ start_task # "pending"
    /\ debounce_task = "sleep" => debounce_left > 0
    /\ poll_task = "sleep" => poll_left > 0
    /\ listener_busy => drain_age < MaxDrainTime
    /\ debounce_left' = IF debounce_task = "sleep" THEN debounce_left - 1 ELSE debounce_left
    /\ poll_left' = IF poll_task = "sleep" THEN poll_left - 1 ELSE poll_left
    /\ tick_age' = Min(tick_age + 1, TickSec)
    /\ drain_age' = IF listener_busy THEN drain_age + 1 ELSE drain_age
    /\ idle_age' = IF listener_busy THEN 0 ELSE Min(idle_age + 1, TickSec + 1)
    /\ burst_age' = IF burst_age = -1 THEN -1 ELSE Min(burst_age + 1, DebounceSec + 1)
    /\ UNCHANGED <<notify_event, debounce_task, poll_task, start_task, listener_busy, drain_pc,
                   queued, burst_drains, burst_runs, burst_first_drain>>
    /\ UNCHANGED <<commitVars, queueVars, runVars, propVars, ingestVars, kpiVars, funVars>>

NextListen ==
    \/ Notify
    \/ DebounceWake
    \/ PollWake
    \/ StartDrain
    \/ DrainPick
    \/ DrainRunEnd
    \/ DrainRaise
    \/ Tick

----------------------------------------------------------------------------
(* 01_ingest.py : the tariff zone masks of the hours *)

\* 01_ingest.py:79  the masks have one element per hour of the day
HoursPerDay == 24
DayHours == 0 .. HoursPerDay - 1

\* values of a dyst_sched_..._start / _end entry after int(float(s or 0))
\* (01_ingest.py:74-75); 25 stands for the values outside 0..24
WindowSet == {0, 2, 22, 25}

\* (month, mode) keys of cache_masks (01_ingest.py:201-204)
Keys01 == {<<1, 1>>, <<1, 0>>}

\* hours of the day the calendar rows carry
HourOfDaySet == {0, 12, 23}

\* the entries of dyst_sched_canon read for one (month, mode)
Windows01 == [s_am : WindowSet, e_am : WindowSet, s_pm : WindowSet, e_pm : WindowSet]

\* 01_ingest.py:76  the range test of _window
WindowInRange(s, e) == 0 <= s /\ s <= HoursPerDay /\ 0 <= e /\ e <= HoursPerDay

\* _mask_from_se without the two slices of a window that wraps
MaskFromSeNoWrap(s, e) ==
    [h \in DayHours |-> IF s < e /\ s <= h /\ h < e THEN 1 ELSE 0]

\* 01_ingest.py:80-90  _mask_from_se
MaskFromSe(s, e) ==
    [h \in DayHours |->
        IF s = 0 /\ e = 0 THEN 0
        ELSE IF s < e THEN (IF s <= h /\ h < e THEN 1 ELSE 0)
        ELSE (IF h >= s \/ h < e THEN 1 ELSE 0)]

\* numpy sum of a 0/1 mask
MaskSum(mask) == Cardinality({h \in DayHours : mask[h] = 1})

\* 01_ingest.py:59-95 and 207-229  the masks of one (month, mode); ok is
\* FALSE when _build_peak_masks_24h_am_pm or one of the two validations raises
BuildMasks01(w) ==
    IF ~(WindowInRange(w.s_am, w.e_am) /\ WindowInRange(w.s_pm, w.e_pm)) THEN [ok |-> FALSE]
    ELSE LET hours24_am == MaskFromSe(w.s_am, w.e_am)
             hours24_pm == MaskFromSe(w.s_pm, w.e_pm)
             am_sum == MaskSum(hours24_am)
             pm_sum == MaskSum(hours24_pm)
             hours24_off == [h \in DayHours |->
                               IF hours24_am[h] = 1 \/ hours24_pm[h] = 1 THEN 0 ELSE 1]
         IN  IF am_sum = 0 /\ pm_sum = 0
             THEN [ok |-> TRUE, am |-> [h \in DayHours |-> 0], pm |-> [h \in DayHours |-> 0],
                   off |-> [h \in DayHours |-> 1]]
             ELSE IF \E h \in DayHours : hours24_am[h] = 1 /\ hours24_pm[h] = 1 THEN [ok |-> FALSE]
             ELSE IF MaskSum(hours24_off) + am_sum + pm_sum # HoursPerDay THEN [ok |-> FALSE]
             ELSE [ok |-> TRUE, am |-> hours24_am, pm |-> hours24_pm, off |-> hours24_off]

\* 01_ingest.py:181-182  the day mode of an hour from the two calendar flags
IsWork(is_workday) == IF is_workday = 1 THEN 1 ELSE 0
IsFree(is_workday, is_holiday) == IF is_holiday = 1 \/ IsWork(is_workday) = 0 THEN 1 ELSE 0

\* 01_ingest.py:196-199  before the loop over the hours
InitIngest ==
    /\ ipc = "loop"
    /\ i01 = 0
    /\ cache_masks = <<>>
    /\ win_of = <<>>
    /\ zone01 = <<>>
    /\ CommitOff
    /\ QueueOff
    /\ RunOff
    /\ PropOff
    /\ ListenOff
    /\ KpiOff
    /\ FunOff

\* 01_ingest.py:201-234  one hour of the loop: its month, calendar flags and
\* hour of the day come from input.date_dim (the month is 1 here), and
\* key = (month, is_work); the masks of a key are built from the
\* entries of dyst_sched_canon the first time the key is met (each entry is
\* read once in a run, so it is drawn when it is read)
IngestHour ==
    /\ ipc = "loop" /\ i01 < NumIngest
    /\ \E is_workday \in {0, 1}, is_holiday \in {0, 1}, h \in HourOfDaySet :
         LET key == <<1, IsWork(is_workday)>>
             cal == [is_workday |-> is_workday, is_holiday |-> is_holiday,
                     is_free |-> IsFree(is_workday, is_holiday)]
         IN
         IF key \in DOMAIN cache_masks
         THEN /\ zone01' = Append(zone01, [key |-> key, h |-> h, cal |-> cal,
                                           zone_peak_am |-> cache_masks[key].am[h],
                                           zone_peak_pm |-> cache_masks[key].pm[h],
                                           zone_off |-> cache_masks[key].off[h]])
              /\ i01' = i01 + 1
              /\ UNCHANGED <<ipc, cache_masks, win_of>>
         ELSE \E w \in Windows01 :
                LET built == BuildMasks01(w)
                IN  /\ win_of' = MergeKeys(win_of, [k \in {key} |-> w])
                    /\ IF ~built.ok
                       THEN /\ ipc' = "failed"
                            /\ UNCHANGED <<i01, cache_masks, zone01>>
                       ELSE /\ cache_masks' = MergeKeys(cache_masks, [k \in {key} |-> built])
                            /\ zone01' = Append(zone01, [key |-> key, h |-> h, cal |-> cal,
                                                         zone_peak_am |-> built.am[h],
                                                         zone_peak_pm |-> built.pm[h],
                                                         zone_off |-> built.off[h]])
                            /\ i01' = i01 + 1
                            /\ UNCHANGED ipc
    /\ UNCHANGED <<commitVars, queueVars, runVars, propVars, listenVars, kpiVars, funVars>>

NextIngest == IngestHour

----------------------------------------------------------------------------
(* 03_commit.py : the financial KPI, in floating point *)

\* significant bits of the floats of the model (float64 has 53)
SigBits == 3

Abs(x) == IF x < 0 THEN 0 - x ELSE x

\* the binary exponent of the last significant bit of a >= 0
UlpExp(a) ==
    CHOOSE e \in 0 .. 8 : a < 2 ^ (SigBits + e) /\ (e = 0 \/ a >= 2 ^ (SigBits + e - 1))

\* the float nearest to x, ties to the even significand (IEEE 754 default)
Fl(x) ==
    LET a == Abs(x)
        u == 2 ^ UlpExp(a)
        q == a \div u
        r == a % u
        m == IF 2 * r > u \/ (2 * r = u /\ q % 2 = 1) THEN q + 1 ELSE q
    IN  IF x < 0 THEN 0 - (m * u) ELSE m * u

FAdd(x, y) == Fl(x + y)
FSub(x, y) == Fl(x - y)
FMul(x, y) == Fl(x * y)

\* 03_commit.py:72-73  effective prices (finite, NaN replaced by 0)
PriceEffSet == {0, 1, 2, 3}

\* 03_commit.py:309-314  cashflow_net_pln
CashflowNet(rev_arbi_to_grid_pln, rev_surplus_export_pln, cost_grid_to_arbi_pln, cost_import_for_load_pln) ==
    FSub(FSub(FAdd(rev_arbi_to_grid_pln, rev_surplus_export_pln), cost_grid_to_arbi_pln),
         cost_import_for_load_pln)

\* 03_commit.py:121-298  the hour loop has left the four AC flows of an hour;
\* surplus export and import for the load do not meet in one hour
\* (01_ingest.py:425-426)
InitKpi ==
    /\ kpc = "flows"
    /\ kpi_in \in [ export_from_arbi_ac_mwh : Qty, export_from_surplus_ac_mwh : Qty,
                    import_for_arbi_ac_mwh : Qty, import_for_load_ac_mwh : Qty,
                    price_export_eff : PriceEffSet, price_import_eff : PriceEffSet ]
    /\ kpi_in.export_from_surplus_ac_mwh = 0 \/ kpi_in.import_for_load_ac_mwh = 0
    /\ kpi_out = <<>>
    /\ CommitOff
    /\ QueueOff
    /\ RunOff
    /\ PropOff
    /\ ListenOff
    /\ IngestOff
    /\ FunOff

\* 03_commit.py:300-314  the cash flows of the hour
ComputeKpi ==
    /\ kpc = "flows"
    /\ LET rev_arbi_to_grid_pln == FMul(kpi_in.export_from_arbi_ac_mwh, kpi_in.price_export_eff)
           rev_surplus_export_pln == FMul(kpi_in.export_from_surplus_ac_mwh, kpi_in.price_export_eff)
           cost_grid_to_arbi_pln == FMul(kpi_in.import_for_arbi_ac_mwh, kpi_in.price_import_eff)
           cost_import_for_load_pln == FMul(kpi_in.import_for_load_ac_mwh, kpi_in.price_import_eff)
       IN  kpi_out' = [ rev_arbi_to_grid_pln |-> rev_arbi_to_grid_pln,
                        rev_surplus_export_pln |-> rev_surplus_export_pln,
                        cost_grid_to_arbi_pln |-> cost_grid_to_arbi_pln,
                        cost_import_for_load_pln |-> cost_import_for_load_pln,
                        cashflow_arbi_pln |-> FSub(rev_arbi_to_grid_pln, cost_grid_to_arbi_pln),
                        cashflow_net_pln |-> CashflowNet(rev_arbi_to_grid_pln,
                                                         rev_surplus_export_pln,
                                                         cost_grid_to_arbi_pln,
                                                         cost_import_for_load_pln) ]
    /\ kpc' = "kpi"
    /\ UNCHANGED kpi_in
    /\ UNCHANGED <<commitVars, queueVars, runVars, propVars, listenVars, ingestVars, funVars>>

NextKpi == ComputeKpi

----------------------------------------------------------------------------
(* 03_commit.py : steps 3) and 4) of an hour, in floating point *)

\* significant bits of the floats of these steps
FlowBits == SigBits + 1
\* the energy 1.0 and the efficiency 1.0, in units of the smallest float;
\* every value from 0.125 up has FlowBits significant bits
FlowOne == 2 ^ (FlowBits + 2)

\* the float nearest to n / d (n >= 0, d > 0), ties to the even significand
FlRat(n, d) ==
    LET e == CHOOSE k \in 0 .. 12 :
                 n < d * 2 ^ (FlowBits + k) /\ (k = 0 \/ n >= d * 2 ^ (FlowBits + k - 1))
        u == d * 2 ^ e
        q == n \div u
        r == n % u
        m == IF 2 * r > u \/ (2 * r = u /\ q % 2 = 1) THEN q + 1 ELSE q
    IN  m * 2 ^ e

\* x * y and x / y for an efficiency y
FMulEta(x, y) == FlRat(x * y, FlowOne)
FDivEta(x, y) == FlRat(x * FlowOne, y)

\* no energy and the floats from 1.0 to 8.0; the efficiencies from 0.5 to 1.0
FlowFloats == {0} \cup { FlRat(n, 1) : n \in FlowOne .. 8 * FlowOne }
FlowEtas == { FlRat(n, 1) : n \in FlowOne \div 2 .. FlowOne }

\* 03_commit.py:182-194  3) ARBI -> GRID of one hour: export_from_arbi_ac_mwh
ArbiToGridFl(prop_dis, soc, dis_net_budget, eta_dis) ==
    LET max_net_for_grid == Min(soc, dis_net_budget)
        max_ac_for_grid == FMulEta(max_net_for_grid, eta_dis)
        out_ac == Min(prop_dis, max_ac_for_grid)
    IN  IF dis_net_budget > 0 /\ out_ac > 0 THEN out_ac ELSE 0

\* 03_commit.py:204-213  4) ARBI <- GRID of one hour: import_for_arbi_ac_mwh
GridToArbiFl(in_ac, headroom_arbi, ch_net_budget, eta_ch) ==
    LET net_to_arbi == Min3(FMulEta(in_ac, eta_ch), headroom_arbi, ch_net_budget)
        ac_needed == FDivEta(net_to_arbi, eta_ch)
    IN  IF net_to_arbi > 0 THEN ac_needed ELSE 0

\* the proposals, the pool and the efficiencies of an hour whose BESS budgets
\* and grid caps do not bind
InitFlow ==
    /\ fpc = "args"
    /\ fin \in [ prop_dis : FlowFloats, prop_ch : FlowFloats,
                  soc_arbi : {0, 8 * FlowOne}, eta : FlowEtas ]
    /\ fout = <<>>
    /\ CommitOff
    /\ QueueOff
    /\ RunOff
    /\ PropOff
    /\ ListenOff
    /\ IngestOff
    /\ KpiOff

\* 03_commit.py:181-222  the two steps of the hour
FlowHour ==
    /\ fpc = "args"
    /\ fout' = [ export_from_arbi_ac_mwh |->
                     ArbiToGridFl(fin.prop_dis, fin.soc_arbi, 8 * FlowOne, fin.eta),
                 import_for_arbi_ac_mwh |->
                     GridToArbiFl(fin.prop_ch, 8 * FlowOne, 8 * FlowOne, fin.eta) ]
    /\ fpc' = "ret"
    /\ UNCHANGED fin
    /\ UNCHANGED <<commitVars, queueVars, runVars, propVars, listenVars, ingestVars, kpiVars>>

NextFlow == FlowHour

----------------------------------------------------------------------------
(* 03_commit.py, 04_pricing.py : the amounts of an hour whose price may be missing *)

\* a float64 is a finite number, NaN, or an infinity with its sign
Fin(v) == [k |-> "fin", v |-> v]
NaN == [k |-> "nan", v |-> 0]
Inf(sign) == [k |-> "inf", v |-> sign]

\* np.isfinite
IsFinite(x) == x.k = "fin"

Sgn(x) == IF x.v > 0 THEN 1 ELSE IF x.v < 0 THEN 0 - 1 ELSE 0

\* float64 *: NaN and 0 * inf give NaN
XMul(x, y) ==
    IF x.k = "nan" \/ y.k = "nan" THEN NaN
    ELSE IF x.k = "inf" \/ y.k = "inf"
         THEN IF Sgn(x) * Sgn(y) = 0 THEN NaN ELSE Inf(Sgn(x) * Sgn(y))
         ELSE Fin(x.v * y.v)

\* float64 +: NaN and inf + (-inf) give NaN
XAdd(x, y) ==
    IF x.k = "nan" \/ y.k = "nan" THEN NaN
    ELSE IF x.k = "inf" /\ y.k = "inf" THEN (IF x.v = y.v THEN x ELSE NaN)
    ELSE IF x.k = "inf" THEN x
    ELSE IF y.k = "inf" THEN y
    ELSE Fin(x.v + y.v)

XNeg(x) == IF x.k = "nan" THEN NaN ELSE [x EXCEPT !.v = 0 - x.v]
XSub(x, y) == XAdd(x, XNeg(y))

\* 03_commit.py:72-73  np.where(np.isfinite(price), price, 0.0)
PriceEff(price) == IF IsFinite(price) THEN price ELSE Fin(0)

\* 01_ingest.py:263-264  the price of an hour: a number of
\* input.ceny_godzinowe, or NaN for an hour the table does not have
\* (an infinity can be stored in the table)
PriceValues == {Fin(0), Fin(2), NaN, Inf(1), Inf(0 - 1)}
MwhValues == {Fin(0), Fin(1)}

\* 03_commit.py:67-298  prices and the flows and losses of an hour when the
\* hour loop has ended.  Of the nine quantities that 04_pricing values, two
\* vary here and the others are 0.
InitPrice ==
    /\ fpc = "flows"
    /\ fin \in [ price_import : PriceValues, price_export : PriceValues,
                 export_from_arbi_ac_mwh : MwhValues, export_from_surplus_ac_mwh : MwhValues,
                 import_for_arbi_ac_mwh : MwhValues, import_for_load_ac_mwh : MwhValues,
                 loss_conv_ch_mwh : MwhValues, loss_conv_dis_to_grid_mwh : MwhValues ]
    /\ fout = <<>>
    /\ CommitOff
    /\ QueueOff
    /\ RunOff
    /\ PropOff
    /\ ListenOff
    /\ IngestOff
    /\ KpiOff

\* 03_commit.py:300-314, 356-364  the KPI of the hour and the price columns of out
CommitKpi ==
    /\ fpc = "flows"
    /\ LET price_import_eff == PriceEff(fin.price_import)
           price_export_eff == PriceEff(fin.price_export)
           rev_arbi_to_grid_pln == XMul(fin.export_from_arbi_ac_mwh, price_export_eff)
           rev_surplus_export_pln == XMul(fin.export_from_surplus_ac_mwh, price_export_eff)
           cost_grid_to_arbi_pln == XMul(fin.import_for_arbi_ac_mwh, price_import_eff)
           cost_import_for_load_pln == XMul(fin.import_for_load_ac_mwh, price_import_eff)
       IN  fout' = [ price_import_pln_mwh |-> fin.price_import,
                     price_export_pln_mwh |-> fin.price_export,
                     rev_arbi_to_grid_pln |-> rev_arbi_to_grid_pln,
                     rev_surplus_export_pln |-> rev_surplus_export_pln,
                     cost_grid_to_arbi_pln |-> cost_grid_to_arbi_pln,
                     cost_import_for_load_pln |-> cost_import_for_load_pln,
                     cashflow_arbi_pln |-> XSub(rev_arbi_to_grid_pln, cost_grid_to_arbi_pln),
                     cashflow_net_pln |->
                         XSub(XSub(XAdd(rev_arbi_to_grid_pln, rev_surplus_export_pln),
                                   cost_grid_to_arbi_pln), cost_import_for_load_pln) ]
    /\ fpc' = "commit"
    /\ UNCHANGED fin
    /\ UNCHANGED <<commitVars, queueVars, runVars, propVars, listenVars, ingestVars, kpiVars>>

\* 04_pricing.py:52-179  run: the row of the hour
PricingRun ==
    /\ fpc = "commit"
    /\ LET price_import == fout.price_import_pln_mwh
           price_export == fout.price_export_pln_mwh
           pln_loss_conv_ch == XMul(fin.loss_conv_ch_mwh, price_import)
           pln_loss_conv_dis_to_grid == XMul(fin.loss_conv_dis_to_grid_mwh, price_export)
           pln_loss_conv_dis_to_load == XMul(Fin(0), price_import)
           pln_loss_idle_arbi == XMul(Fin(0), price_import)
           pln_loss_idle_oze == XMul(Fin(0), price_export)
           pln_wasted_surplus_cap == XMul(Fin(0), price_export)
           pln_cap_blocked_dis_ac == XMul(Fin(0), price_export)
           pln_cap_blocked_ch_ac == XMul(Fin(0), price_import)
           pln_unserved_load_after_cap == XMul(Fin(0), price_import)
       IN  fout' = [ price_import_pln_mwh |-> price_import,
                     price_export_pln_mwh |-> price_export,
                     rev_arbi_to_grid_pln |-> fout.rev_arbi_to_grid_pln,
                     rev_surplus_export_pln |-> fout.rev_surplus_export_pln,
                     cost_grid_to_arbi_pln |-> fout.cost_grid_to_arbi_pln,
                     cost_import_for_load_pln |-> fout.cost_import_for_load_pln,
                     cashflow_arbi_pln |-> fout.cashflow_arbi_pln,
                     cashflow_net_pln |-> fout.cashflow_net_pln,
                     pln_loss_conv_ch |-> pln_loss_conv_ch,
                     pln_loss_conv_dis_to_grid |-> pln_loss_conv_dis_to_grid,
                     pln_loss_conv_dis_to_load |-> pln_loss_conv_dis_to_load,
                     pln_loss_idle_arbi |-> pln_loss_idle_arbi,
                     pln_loss_idle_oze |-> pln_loss_idle_oze,
                     pln_wasted_surplus_cap |-> pln_wasted_surplus_cap,
                     losses_diag_total_pln |->
                         XAdd(XAdd(XAdd(XAdd(XAdd(pln_loss_conv_ch, pln_loss_conv_dis_to_grid),
                                             pln_loss_conv_dis_to_load), pln_loss_idle_arbi),
                                   pln_loss_idle_oze), pln_wasted_surplus_cap),
                     pln_cap_blocked_dis_ac |-> pln_cap_blocked_dis_ac,
                     pln_cap_blocked_ch_ac |-> pln_cap_blocked_ch_ac,
                     pln_unserved_load_after_cap |-> pln_unserved_load_after_cap,
                     cap_opportunity_total_pln |->
                         XAdd(XAdd(pln_cap_blocked_dis_ac, pln_cap_blocked_ch_ac),
                              pln_unserved_load_after_cap) ]
    /\ fpc' = "ret"
    /\ UNCHANGED fin
    /\ UNCHANGED <<commitVars, queueVars, runVars, propVars, listenVars, ingestVars, kpiVars>>

NextPrice == CommitKpi \/ PricingRun

----------------------------------------------------------------------------
(* 04b_pricing_dyst.py : _compute_K_A_per_day, for the hours of one day *)

\* 04b_pricing_dyst.py:135, 140  the value that stands for an unbounded delta_s
DeltaSMax == 1000000000

\* the hours of the day that the function is given
KHours == 1 .. 3

\* np.sum of the elements of pobor at the hours S
RECURSIVE NpSum(_, _)
NpSum(f, S) == IF S = {} THEN 0 ELSE LET x == MinOf(S) IN f[x] + NpSum(f, S \ {x})

\* 04b_pricing_dyst.py:112  sorted(k_thresholds_pct), for three thresholds
SortedThr(t) ==
    LET lo == Min3(t[1], t[2], t[3])
        hi == Max(Max(t[1], t[2]), t[3])
    IN  <<lo, t[1] + t[2] + t[3] - lo - hi, hi>>

\* delta_s as a fraction <<n, d>> with d > 0 is below the threshold t
FracBelow(x, t) == x[1] < t * x[2]

\* 04b_pricing_dyst.py:114-118  to_K
ToK(delta_s, thr) ==
    IF FracBelow(delta_s, thr[1]) THEN "K1"
    ELSE IF FracBelow(delta_s, thr[2]) THEN "K2"
    ELSE IF FracBelow(delta_s, thr[3]) THEN "K3"
    ELSE "K4"

\* 04b_pricing_dyst.py:134-144  delta_s of a day from the sums and the counts
\* of its peak and off hours; avg_peak / avg_off = (E_peak * Nf) / (E_off * Np)
DeltaS(E_peak, E_off, Np, Nf) ==
    IF Nf = 0 THEN <<DeltaSMax, 1>>
    ELSE LET np1 == Max(Np, 1)
         IN  IF E_off <= 0 /\ E_peak > 0 THEN <<DeltaSMax, 1>>
             ELSE IF E_off <= 0 /\ E_peak <= 0 THEN <<0, 1>>
             ELSE <<100 * (E_peak * Nf - E_off * np1), E_off * np1>>

\* 04b_pricing_dyst.py:147  k_A_values.get(Kg, 1.0), in hundredths
AOf(k_A_values, Kg) == IF Kg \in DOMAIN k_A_values THEN k_A_values[Kg] ELSE 100

\* 04b_pricing_dyst.py:112-151  the body of the loop for one day
ComputeKAPerDay(pobor, is_cap_peak, k_thresholds_pct, k_A_values) ==
    LET thr == SortedThr(k_thresholds_pct)
        peak == {h \in DOMAIN pobor : is_cap_peak[h] = 1}
        off == {h \in DOMAIN pobor : is_cap_peak[h] = 0}
        delta_s == DeltaS(NpSum(pobor, peak), NpSum(pobor, off),
                          Cardinality(peak), Cardinality(off))
        Kg == ToK(delta_s, thr)
    IN  [delta_s_day_pct |-> delta_s, K_group |-> Kg, A_day |-> AOf(k_A_values, Kg)]

\* the consumption of an hour in MWh, the threshold lists and the coefficient maps
PoborSet == {0, 2, 6}
ThresholdLists == {<<5, 10, 15>>, <<15, 5, 10>>, <<0 - 150, 0, 250>>}
AMaps == {[K1 |-> 17, K2 |-> 50, K3 |-> 83, K4 |-> 100], [K1 |-> 17, K2 |-> 50]}

\* 04b_pricing_dyst.py:229-239  the arguments of a call
InitKA ==
    /\ fpc = "args"
    /\ fin \in [ pobor : [KHours -> PoborSet], is_cap_peak : [KHours -> {0, 1}],
                 k_thresholds_pct : ThresholdLists, k_A_values : AMaps ]
    /\ fout = <<>>
    /\ CommitOff
    /\ QueueOff
    /\ RunOff
    /\ PropOff
    /\ ListenOff
    /\ IngestOff
    /\ KpiOff

\* 04b_pricing_dyst.py:103-157  the call
CallComputeKA ==
    /\ fpc = "args"
    /\ fout' = ComputeKAPerDay(fin.pobor, fin.is_cap_peak, fin.k_thresholds_pct, fin.k_A_values)
    /\ fpc' = "ret"
    /\ UNCHANGED fin
    /\ UNCHANGED <<commitVars, queueVars, runVars, propVars, listenVars, ingestVars, kpiVars>>

NextKA == CallComputeKA

----------------------------------------------------------------------------
(* tasks/bootstrap.py : the SQL files of the bootstrap *)

\* A path relative to SQL_DIR is <<folder, file>>, both being the two-digit
\* prefixes of the names: <<20, 3>> is 20_tables/03_params_tables.sql.  The
\* names of the files of a folder sort as their prefixes do.

\* tasks/bootstrap.py:53-65
ORDER_BOOTSTRAP ==
    << <<0, 0>>, <<0, 1>>, <<0, 2>>, <<10, 1>>, <<20, 1>>, <<20, 2>>, <<20, 3>>, <<20, 4>>,
       <<25, 1>>, <<40, 1>>, <<90, 1>> >>

\* tasks/bootstrap.py:67-69
ORDER_BOOTSTRAP_END == << <<90, 2>> >>

\* the .sql files SQL_DIR may hold: those of the two lists,
\* 40_triggers/02_event_triggers.sql (tasks/bootstrap.py:48) and the view of
\* folder 30_views of tests/test_sql_order.py:24
SqlFiles ==
    {ORDER_BOOTSTRAP[i] : i \in DOMAIN ORDER_BOOTSTRAP} \cup {<<90, 2>>, <<40, 2>>, <<30, 1>>}

\* the files that are always there in the model (the others may be missing)
SqlKept == {<<0, 0>>, <<0, 1>>, <<0, 2>>, <<10, 1>>, <<20, 1>>, <<20, 2>>}

\* tasks/bootstrap.py:89-100  _iter_exact_paths: the paths of the list that
\* exist as files, in the order of the list
IterExactPaths(order_list, present) == SelectSeq(order_list, LAMBDA p : p \in present)

\* main.py:21  before bootstrap.run
InitBootstrap ==
    /\ fpc = "start"
    /\ fin \in [present : {SqlKept \cup S : S \in SUBSET (SqlFiles \ SqlKept)}]
    /\ fout = <<>>
    /\ CommitOff
    /\ QueueOff
    /\ RunOff
    /\ PropOff
    /\ ListenOff
    /\ IngestOff
    /\ KpiOff

\* tasks/bootstrap.py:259-265  run: fout is the sequence of the files executed
BootstrapRun ==
    /\ fpc = "start"
    /\ fout' = fout \o IterExactPaths(ORDER_BOOTSTRAP, fin.present)
    /\ fpc' = "etl"
    /\ UNCHANGED fin
    /\ UNCHANGED <<commitVars, queueVars, runVars, propVars, listenVars, ingestVars, kpiVars>>

\* tasks/bootstrap.py:267-276  run_end, called after the ETL tasks (main.py:36)
BootstrapRunEnd ==
    /\ fpc = "etl"
    /\ fout' = fout \o IterExactPaths(ORDER_BOOTSTRAP_END, fin.present)
    /\ fpc' = "ret"
    /\ UNCHANGED fin
    /\ UNCHANGED <<commitVars, queueVars, runVars, propVars, listenVars, ingestVars, kpiVars>>

NextBootstrap == BootstrapRun \/ BootstrapRunEnd

----------------------------------------------------------------------------
(* Specifications *)

SpecCommit == InitCommit /\ [][NextCommit]_vars

SpecS4 == InitS4 /\ [][NextS4]_vars

SpecQueue == InitQueue /\ [][NextQueue]_vars

\* listener.py:440-460  while the listener runs, _poll_loop enters
\* _drain_queue again and again (a set _notify_event or the periodic tick);
\* listener.py:470-488  an entered drain goes on to its next statement;
\* a pick statement waiting for a row lock goes on as soon as the lock is
\* released, before the other listener can enter its next drain
DrainProgress(d) ==
    \/ PickLock(d) \/ PickNone(d) \/ PickCommit(d) \/ PickRejected(d) \/ PickDeadlock(d)
    \/ RunStart(d) \/ RunOk(d) \/ RunRaise(d)

SpecQueueLive ==
    /\ SpecQueue
    /\ \A d \in Disp : WF_vars(DrainStart(d)) /\ WF_vars(DrainProgress(d))
    /\ \A d \in Disp : SF_vars(PickCommit(d))

SpecRun == InitRun /\ [][NextRun]_vars

SpecProp == InitProp /\ [][NextProp]_vars

SpecListen == InitListen /\ [][NextListen]_vars

SpecIngest == InitIngest /\ [][NextIngest]_vars

SpecKpi == InitKpi /\ [][NextKpi]_vars

SpecFlow == InitFlow /\ [][NextFlow]_vars

SpecPrice == InitPrice /\ [][NextPrice]_vars

SpecKA == InitKA /\ [][NextKA]_vars

SpecBootstrap == InitBootstrap /\ [][NextBootstrap]_vars

----------------------------------------------------------------------------
(* Claims about the commit loop (SpecCommit) *)

\* the outputs of an hour are in `row` once the loop body has run
HourWritten == cpc = "tail"

\* C1: after every hour both pool states are in range, before and after the
\* idle loss: 0 <= soc_oze <= emax_oze and 0 <= soc_arbi <= emax_arbi.
C1_SocInRange ==
    HourWritten =>
        /\ 0 <= row.soc_oze_before_idle /\ row.soc_oze_before_idle <= H.emax_oze
        /\ 0 <= row.soc_oze_after_idle /\ row.soc_oze_after_idle <= H.emax_oze
        /\ 0 <= row.soc_arbi_before_idle /\ row.soc_arbi_before_idle <= H.emax_arbi
        /\ 0 <= row.soc_arbi_after_idle /\ row.soc_arbi_after_idle <= H.emax_arbi
        /\ soc_oze = row.soc_oze_after_idle /\ soc_arbi = row.soc_arbi_after_idle

\* C1 witness: an hour in which ARBI discharged to the grid, was recharged, and
\* the export cap cut then restored SOC up to a full ARBI pool.
C1_Witness ==
    /\ HourWritten
    /\ row.bind_export_cap
    /\ row.discharge_to_grid > row.export_from_arbi
    /\ row.charge_from_grid > 0
    /\ H.emax_arbi > 0
    /\ row.soc_arbi_before_idle = H.emax_arbi

\* C2: in every hour, after cap enforcement, the export sum and the import sum
\* are within the grid caps up to EPS.
C2_GridCaps ==
    HourWritten =>
        /\ row.export_from_surplus + row.export_from_arbi <= H.cap_grid_export_ac + EPS
        /\ row.import_for_load + row.import_for_arbi <= H.cap_grid_import_ac + EPS

\* C2 witness: an hour in which both caps were binding and both cuts reached
\* the non-arbitrage component.
C2_Witness ==
    /\ HourWritten
    /\ row.bind_export_cap /\ row.wasted_surplus > 0
    /\ row.bind_import_cap /\ row.import_for_arbi < row.prop_ch
    /\ row.export_from_surplus > 0

\* C3: in every hour every flow and loss output is >= 0 (all values of the
\* fixed-point grid are finite).
C3_NonNegative ==
    HourWritten =>
        /\ row.charge_from_surplus >= 0 /\ row.charge_from_grid >= 0
        /\ row.discharge_to_load >= 0 /\ row.discharge_to_grid >= 0
        /\ row.e_import >= 0 /\ row.e_export >= 0
        /\ row.export_from_surplus >= 0 /\ row.export_from_arbi >= 0
        /\ row.import_for_load >= 0 /\ row.import_for_arbi >= 0
        /\ row.loss_idle_oze >= 0 /\ row.loss_idle_arbi >= 0
        /\ row.loss_conv_ch >= 0 /\ row.loss_conv_dis_to_grid >= 0
        /\ row.loss_conv_dis_to_load >= 0
        /\ row.wasted_surplus >= 0 /\ row.unserved_load >= 0

\* C3 witness: an hour whose import cut took back part of a grid charge
\* (with a conversion loss) and whose deficit was served from storage at a loss.
C3_Witness ==
    /\ HourWritten
    /\ row.bind_import_cap
    /\ row.charge_from_grid > 0 /\ row.loss_conv_ch > 0
    /\ row.import_for_arbi > 0 /\ row.import_for_arbi < row.prop_ch
    /\ row.loss_conv_dis_to_load > 0

----------------------------------------------------------------------------
(* Claims about the job queue (SpecQueue) *)

\* the moves of the status column the lifecycle allows ("none": not inserted)
AllowedMoves ==
    { <<"none", "queued">>, <<"queued", "running">>, <<"queued", "skipped">>,
      <<"running", "done">>, <<"running", "failed">> }

\* C4: a job's status only moves queued->running->done, queued->running->failed
\* or queued->skipped; done, failed and skipped are final and no job returns to
\* queued or running.
C4_StatusMoves ==
    [][\A j \in Jobs : status'[j] # status[j] => <<status[j], status'[j]>> \in AllowedMoves]_vars

\* C4 witness: every terminal status has been reached by some job.
C4_Witness ==
    \E a, b, c \in Jobs : status[a] = "done" /\ status[b] = "failed" /\ status[c] = "skipped"

\* C5: under any interleaving of picks, a job is set running by at most one pick,
\* at most one run_calc is started for it and at most one dispatcher holds it.
C5_AtMostOneRun ==
    \A j \in Jobs :
        /\ picks[j] <= 1
        /\ runs[j] <= 1
        /\ Cardinality({ d \in Disp : dpc[d] \in {"row", "run"} /\ picked[d] = j }) <= 1

\* C5 witness: two pick statements overlapped (one holds a row lock while the
\* other has already committed its pick) and a run has been started.
C5_Witness ==
    \E d, e \in Disp :
        /\ d # e
        /\ dpc[d] = "locked" /\ dpc[e] = "run"
        /\ picked[d] # picked[e]
        /\ runs[picked[e]] = 1

\* C6: whenever a pick finds several queued jobs, the one with the latest
\* created_at becomes running and every other one skipped; no older job is set
\* running while a newer one it found is queued; a job becomes skipped only if
\* a newer queued job exists.
C6_Coalescing ==
    [][/\ \A d \in Disp :
             (dpc[d] = "locked" /\ dpc'[d] # "locked" /\ Cardinality(snap[d]) >= 2) =>
                 /\ status'[MaxOf(snap[d])] = "running"
                 /\ \A j \in snap[d] \ {MaxOf(snap[d])} : status'[j] = "skipped"
       /\ \A d \in Disp : \A j \in Jobs :
             (dpc[d] = "locked" /\ picked[d] = j /\ status[j] = "queued" /\ status'[j] = "running") =>
                 ~ \E k \in snap[d] : k > j /\ status[k] = "queued"
       /\ \A j \in Jobs :
             (status[j] # "skipped" /\ status'[j] = "skipped") =>
                 \E k \in Jobs : k > j /\ status[k] = "queued"
      ]_vars

\* C8: if run_calc raised for a job, its queue row is failed and stores the
\* error text, at most 8 KB long.
C8_FailedWithReason ==
    \A j \in Jobs :
        (run_raised[j] /\ \A d \in Disp : picked[d] # j) =>
            /\ status[j] = "failed"
            /\ ~error[j].null
            /\ error[j].bytes <= 8 * 1024

----------------------------------------------------------------------------
(* Claims about a run (SpecRun) *)

\* C7: no partial results: when run_calc has raised, at whatever stage, no
\* stage output table holds committed rows of that run.
C7_NoPartialResults ==
    \A r \in Runs : rpc[r] = "raised" => \A tb \in StageTables : r \notin visible[tb]

IsPrefix(s, q) == Len(s) <= Len(q) /\ \A i \in 1 .. Len(s) : s[i] = q[i]
IsRowOp(op) == op \in StageTables \cup {"analyze"}

\* C9: a run writes its stage rows in the order 01, 02, 03, 04, then ANALYZE,
\* and they are committed by one commit: at any time either all four stage
\* tables hold the run's rows or none does.
C9_PersistAtomic ==
    \A r \in Runs :
        /\ IsPrefix(SelectSeq(wlog[r], IsRowOp), <<"01", "02", "03", "04", "analyze">>)
        /\ \A t1, t2 \in StageTables : (r \in visible[t1]) <=> (r \in visible[t2])
        /\ row_commits[r] <= 1
        /\ (\E tb \in StageTables : r \in visible[tb]) => wlog[r] = PersistOrder

\* C9 witness: one run has committed its rows to all four tables while another
\* raised inside persist_all after writing some tables and left no rows.
C9_Witness ==
    \E r, o \in Runs :
        /\ r # o
        /\ \A tb \in StageTables : r \in visible[tb]
        /\ row_commits[r] = 1
        /\ rpc[o] = "raised" /\ failed_at[o] = IxOf("05")
        /\ {"01", "02"} \subseteq Done(o)
        /\ \A tb \in StageTables : o \notin visible[tb]

\* C10: stages run in the order 00..06, a stage is started only after its
\* predecessor is recorded done, and when a stage that was recorded as started
\* raises (whatever the cause) it is recorded failed and no later stage is started.
C10_StageSequence ==
    \A r \in Runs :
        /\ \A s \in StageIx :
               stage_status[r][s] # "none" =>
                   \A q \in 1 .. (s - 1) : stage_status[r][q] = "done"
        /\ (rpc[r] = "raised" /\ stage_status[r][failed_at[r]] # "none") =>
               /\ stage_status[r][failed_at[r]] = "failed"
               /\ \A s \in StageIx : s > failed_at[r] => stage_status[r][s] = "none"

----------------------------------------------------------------------------
(* Claims about the proposer (SpecProp) *)

\* C11: at every hour, and for every day, the daily cycle counter is at most
\* cycles_per_day
C11_CyclesWithinLimit ==
    /\ \A d \in DOMAIN cycles_used : cycles_used[d] <= H02.cycles_per_day
    /\ \A i \in DOMAIN out02 : out02[i].cycles_used_today <= H02.cycles_per_day

\* a day on which two cycles were closed, the limit being two
C11_Witness ==
    /\ H02.cycles_per_day = 2
    /\ \E i \in DOMAIN out02 : out02[i].dec_dis /\ out02[i].cycles_used_today = 2

\* the pairs held by the two dicts
Pairs02 ==
    {<<l, k_low_by_hour[l]>> : l \in {x \in DOMAIN k_low_by_hour : k_low_by_hour[x] # 0}}
      \cup {<<k_high_by_hour[h], h>> : h \in {x \in DOMAIN k_high_by_hour : k_high_by_hour[x] # 0}}

\* C12: every pair has its low strictly before its high on the same day; an
\* hour is the low of at most one pair and the high of at most one pair; the
\* two maps are inverses of each other; a day has at most cycles_per_day pairs
C12_PairsWellFormed ==
    /\ \A p \in Pairs02 :
          /\ p[1] < p[2]
          /\ H02.date_key[p[1]] = H02.date_key[p[2]]
          /\ k_low_by_hour[p[1]] = p[2]
          /\ k_high_by_hour[p[2]] = p[1]
    /\ \A p, q \in Pairs02 : (p[1] = q[1] \/ p[2] = q[2]) => p = q
    /\ \A d \in Days02 :
          Cardinality({p \in Pairs02 : H02.date_key[p[1]] = d}) <= H02.cycles_per_day

\* two pairs on one day, one hour being the high of the first and the low of the second
C12_Witness ==
    /\ ppc = "loop"
    /\ \E h \in DOMAIN k_low_by_hour : k_low_by_hour[h] # 0 /\ k_high_by_hour[h] # 0

RECURSIVE SumOver(_, _, _)
SumOver(rows, field, hours) ==
    IF hours = {} THEN 0
    ELSE LET h == MinOf(hours)
         IN  rows[h][field] + SumOver(rows, field, hours \ {h})

\* C18: with eta_ch = eta_dis = 1, base_min_profit = 0, no bonuses and no cap
\* binding, a day that has all its cycles_per_day pairs and whose hours are
\* all processed has equal sums of prop_dis_ac and prop_ch_ac
C18_DailyBalance ==
    \A d \in Days02 :
        LET idx == HoursOfDay(H02, d)
        IN  ( /\ ppc = "loop"
              /\ idx # {} /\ idx \subseteq DOMAIN out02
              /\ H02.eta_ch_frac = <<1, 1>> /\ H02.eta_dis_frac = <<1, 1>>
              /\ H02.base_min_profit_pln_mwh = 0
              /\ H02.bonus_ch_window = 0 /\ H02.bonus_dis_window = 0
              /\ H02.bonus_low_soc_ch = 0 /\ H02.bonus_high_soc_dis = 0
              /\ CapEffChAc(H02) >= H02.emax_arbi_mwh
              /\ CapEffDisAc(H02) >= H02.emax_arbi_mwh
              /\ H02.cycles_per_day >= 1
              /\ Cardinality({p \in Pairs02 : H02.date_key[p[1]] = d}) = H02.cycles_per_day )
            => SumOver(out02, "prop_arbi_dis_to_grid_ac_mwh", idx)
                 = SumOver(out02, "prop_arbi_ch_from_grid_ac_mwh", idx)

----------------------------------------------------------------------------
(* Claims about the tasks of the listener (SpecListen) *)

\* C13: the NOTIFY events of a burst (all within the debounce interval of
\* the first) trigger a single drain, which starts no earlier than the
\* debounce interval after the first NOTIFY, and a single run
C13_DebouncedSingleRun ==
    /\ burst_drains <= 1
    /\ burst_runs <= 1
    /\ burst_first_drain = -1 \/ burst_first_drain >= DebounceSec

\* C14: while the listener runs, the time from the end of a drain to the
\* start of the next is at most the tick interval
C14_TickBound == poll_task # "off" => idle_age <= TickSec

----------------------------------------------------------------------------
(* Claims about the order of the sinks and sources of an hour (SpecCommit) *)

\* steps 1a-1c of a surplus hour: what went to OZE, to ARBI and to the export
\* (before the cap cut), and the room OZE and ARBI have left after their step
SurplusSplit ==
    LET to_arbi == row.charge_from_surplus
    IN  [ to_oze |-> row.soc_oze_before_idle - row.soc_oze_in,
          to_arbi |-> to_arbi,
          exported |-> row.export_from_surplus + row.wasted_surplus,
          oze_room |-> H.emax_oze - row.soc_oze_before_idle,
          arbi_room |-> Min(H.emax_arbi - (row.soc_arbi_in + to_arbi),
                            H.cap_bess_charge_net - to_arbi) ]

\* steps 2a-2c of a deficit hour: what came from OZE, from ARBI and from the
\* import (before the cap cut), and what OZE and ARBI could still give
DeficitSplit ==
    LET from_oze == row.soc_oze_in - row.soc_oze_before_idle
        from_arbi == row.discharge_to_load - from_oze
    IN  [ from_oze |-> from_oze,
          from_arbi |-> from_arbi,
          imported |-> row.import_for_load + row.unserved_load,
          oze_left |-> row.soc_oze_before_idle,
          arbi_left |-> Min(row.soc_arbi_in - from_arbi,
                            H.cap_bess_discharge_net - from_arbi) ]

\* C20: in every hour the surplus goes to OZE until it is full, the rest to
\* ARBI within its headroom and charge budget, and only what is left is
\* exported; the deficit is taken from OZE until it is empty, then from ARBI
\* only if arbi_dis_to_load is set, within its SOC and discharge budget, and
\* only the rest is imported (full, empty and nothing left: up to EPS)
C20_PriorityOrder ==
    cpc = "tail" =>
        /\ row.surplus_in > EPS =>
              LET p == SurplusSplit
                  rest == row.surplus_in - (p.to_oze + p.to_arbi + p.exported)
              IN  /\ p.to_oze >= 0 /\ p.to_arbi >= 0 /\ p.exported >= 0
                  /\ 0 <= rest /\ rest <= EPS
                  /\ p.oze_room >= 0 /\ p.arbi_room >= 0
                  /\ p.to_arbi > 0 => p.oze_room <= EPS
                  /\ p.exported > 0 => (p.oze_room <= EPS /\ p.arbi_room <= EPS)
        /\ row.deficit_in > EPS =>
              LET p == DeficitSplit
                  rest == row.deficit_in - (p.from_oze + p.from_arbi + p.imported)
              IN  /\ p.from_oze >= 0 /\ p.from_arbi >= 0 /\ p.imported >= 0
                  /\ 0 <= rest /\ rest <= EPS
                  /\ p.oze_left >= 0 /\ p.arbi_left >= 0
                  /\ p.from_arbi > 0 => (H.arbi_dis_to_load /\ p.oze_left <= EPS)
                  /\ p.imported > 0 =>
                        (p.oze_left <= EPS /\ (H.arbi_dis_to_load => p.arbi_left <= EPS))

\* a surplus hour that fills OZE, then charges ARBI, then exports the rest
C20_Witness ==
    /\ cpc = "tail"
    /\ row.surplus_in > EPS
    /\ SurplusSplit.to_oze > 0
    /\ SurplusSplit.to_arbi > 0
    /\ SurplusSplit.exported > 0

----------------------------------------------------------------------------
(* Claims about the cuts at the grid caps (SpecCommit) *)

\* the loop-local state of the written hour after steps 1) to 4), before the
\* grid caps are enforced, recomputed from the inputs kept with the row
BeforeCaps ==
    GridToArbiStep(H, ArbiToGridStep(H, DeficitStep(H, SurplusStep(H,
        HourStart(H, row.soc_oze_in, row.soc_arbi_in, row.surplus_in, row.deficit_in,
                  row.prop_dis, row.prop_ch)))))

\* what a cap takes from the arbitrage component `arbi` and from the other
\* component `other` when their sum is above `cap` by more than EPS: the
\* arbitrage component first, the other one by the overflow that remains
CapCuts(arbi, other, cap) ==
    LET overflow == arbi + other - cap
        from_arbi == Min(arbi, overflow)
        remains == overflow - from_arbi
    IN  IF overflow > EPS
        THEN [ cut |-> TRUE, arbi |-> from_arbi,
               other |-> IF remains > EPS THEN Min(other, remains) ELSE 0 ]
        ELSE [ cut |-> FALSE, arbi |-> 0, other |-> 0 ]

\* C21: when a grid cap is exceeded the arbitrage component is reduced first
\* and the non-arbitrage component only by the overflow that remains, that
\* reduction is credited to wasted_surplus / unserved_load, and bind_export_cap
\* / bind_import_cap are set in exactly the hours with such a cut
C21_CutOrder ==
    HourWritten =>
        LET pre == BeforeCaps.o
            ex == CapCuts(pre.export_from_arbi, pre.export_from_surplus, H.cap_grid_export_ac)
            im == CapCuts(pre.import_for_arbi, pre.import_for_load, H.cap_grid_import_ac)
        IN  /\ row.export_from_arbi = pre.export_from_arbi - ex.arbi
            /\ row.export_from_surplus = pre.export_from_surplus - ex.other
            /\ row.wasted_surplus = ex.other
            /\ row.bind_export_cap = ex.cut
            /\ row.bind_export_cap = (ex.arbi > 0 \/ ex.other > 0)
            /\ row.import_for_arbi = pre.import_for_arbi - im.arbi
            /\ row.import_for_load = pre.import_for_load - im.other
            /\ row.unserved_load = im.other
            /\ row.bind_import_cap = im.cut
            /\ row.bind_import_cap = (im.arbi > 0 \/ im.other > 0)

\* an hour whose export cut took the whole ARBI export and part of the surplus
\* export, and whose import cut took part of the grid charge only
C21_Witness ==
    /\ HourWritten
    /\ row.bind_export_cap
    /\ BeforeCaps.o.export_from_arbi > 0 /\ row.export_from_arbi = 0
    /\ row.wasted_surplus > 0 /\ row.export_from_surplus > 0
    /\ row.bind_import_cap
    /\ row.import_for_arbi > 0 /\ row.import_for_arbi < BeforeCaps.o.import_for_arbi
    /\ row.unserved_load = 0

\* the NET energy ARBI gave to the load in the written hour (step 2b)
ArbiToLoad ==
    IF row.discharge_to_load > 0
    THEN row.discharge_to_load - (row.soc_oze_in - row.soc_oze_before_idle)
    ELSE 0

\* C22: in every hour soc_arbi before the idle loss is the soc_arbi the hour
\* started with + charge_from_surplus + charge_from_grid - the ARBI energy
\* discharged to the load - export_from_arbi / eta_dis, with the flows as
\* they are after the cap cuts
C22_ArbiEnergyBalance ==
    HourWritten =>
        row.soc_arbi_before_idle
          = row.soc_arbi_in + row.charge_from_surplus + row.charge_from_grid
              - ArbiToLoad - DivFrac(row.export_from_arbi, H.eta_dis)

\* C23: in every hour the NET energy charged into ARBI (from the surplus and
\* from the grid) is at most cap_bess_charge_net and the NET energy discharged
\* from ARBI (to the load and to the grid) at most cap_bess_discharge_net;
\* OZE takes min(surplus, headroom) and gives min(deficit, SOC) whatever
\* these caps are
C23_BessCaps ==
    HourWritten =>
        LET pre == BeforeCaps.o
        IN  /\ pre.charge_from_surplus + pre.charge_from_grid <= H.cap_bess_charge_net
            /\ row.charge_from_surplus + row.charge_from_grid <= H.cap_bess_charge_net
            /\ ArbiToLoad + DivFrac(row.discharge_to_grid, H.eta_dis)
                  <= H.cap_bess_discharge_net
            /\ (row.surplus_in > EPS /\ Min(row.surplus_in, H.emax_oze - row.soc_oze_in) > EPS)
                  => SurplusSplit.to_oze = Min(row.surplus_in, H.emax_oze - row.soc_oze_in)
            /\ (row.deficit_in > EPS /\ Min(row.deficit_in, row.soc_oze_in) > EPS)
                  => DeficitSplit.from_oze = Min(row.deficit_in, row.soc_oze_in)

\* an hour in which OZE took more than cap_bess_charge_net from the surplus
\* and ARBI, with room for the rest, was held at the cap
C23_Witness ==
    /\ HourWritten
    /\ SurplusSplit.to_oze > H.cap_bess_charge_net
    /\ row.surplus_in - SurplusSplit.to_oze > H.cap_bess_charge_net
    /\ H.emax_arbi - row.soc_arbi_in > H.cap_bess_charge_net
    /\ row.charge_from_surplus + row.charge_from_grid <= H.cap_bess_charge_net
    /\ row.prop_ch > 0 /\ row.cap_blocked_ch_ac > 0

\* C34: in every hour, also when the export cap cut the ARBI export,
\* discharge_to_grid is export_from_arbi and loss_conv_dis_to_grid is
\* export_from_arbi * (1/eta_dis - 1)
C34_DischargeReportAgrees ==
    HourWritten =>
        /\ row.discharge_to_grid = row.export_from_arbi
        /\ row.loss_conv_dis_to_grid = ConvLoss(row.export_from_arbi, H.eta_dis)

----------------------------------------------------------------------------
(* Claims about the SOC percentages and the validator (SpecCommit) *)

\* 06_validate.py:156-157  the value is counted as out of range
OutOfRangeSoc(pct) == pct[1] < 0 \/ pct[1] > pct[2]

\* C32: in every hour soc_oze_pct_of_total and soc_arbi_pct_of_total lie
\* within [0,1], so that the SOC range check of the validator passes
C32_SocPctInRange ==
    HourWritten =>
        /\ ~OutOfRangeSoc(row.soc_oze_pct_of_total)
        /\ ~OutOfRangeSoc(row.soc_arbi_pct_of_total)

----------------------------------------------------------------------------
(* Claims about the arbitrage executed against the proposal (SpecFlow) *)

\* C33: in every hour export_from_arbi is at most prop_dis_ac and
\* import_for_arbi at most prop_ch_ac
C33_WithinProposal ==
    fpc = "ret" =>
        /\ fout.export_from_arbi_ac_mwh <= fin.prop_dis
        /\ fout.import_for_arbi_ac_mwh <= fin.prop_ch

----------------------------------------------------------------------------
(* Claims about an hour without a price (SpecPrice) *)

\* the amounts of the row in PLN: revenues, costs, cash flows, valued losses
AmountColumns ==
    { "rev_arbi_to_grid_pln", "rev_surplus_export_pln", "cost_grid_to_arbi_pln",
      "cost_import_for_load_pln", "cashflow_arbi_pln", "cashflow_net_pln",
      "pln_loss_conv_ch", "pln_loss_conv_dis_to_grid", "pln_loss_conv_dis_to_load",
      "pln_loss_idle_arbi", "pln_loss_idle_oze", "pln_wasted_surplus_cap",
      "losses_diag_total_pln", "pln_cap_blocked_dis_ac", "pln_cap_blocked_ch_ac",
      "pln_unserved_load_after_cap", "cap_opportunity_total_pln" }

\* the amounts that are a quantity times the import price, or times the export price
ImportPriced ==
    { "cost_grid_to_arbi_pln", "cost_import_for_load_pln", "pln_loss_conv_ch",
      "pln_loss_conv_dis_to_load", "pln_loss_idle_arbi", "pln_cap_blocked_ch_ac",
      "pln_unserved_load_after_cap" }
ExportPriced ==
    { "rev_arbi_to_grid_pln", "rev_surplus_export_pln", "pln_loss_conv_dis_to_grid",
      "pln_loss_idle_oze", "pln_wasted_surplus_cap", "pln_cap_blocked_dis_ac" }

PriceMissing == ~IsFinite(fin.price_import) \/ ~IsFinite(fin.price_export)

\* C37: when the price of an hour is missing (NaN or an infinity), every
\* revenue, cost, cash flow and valued loss of the hour is finite, an amount
\* valued at the missing price is 0, and the price columns keep the missing
\* value
C37_MissingPrice ==
    (fpc = "ret" /\ PriceMissing) =>
        /\ \A c \in AmountColumns : IsFinite(fout[c])
        /\ ~IsFinite(fin.price_import) => \A c \in ImportPriced : fout[c] = Fin(0)
        /\ ~IsFinite(fin.price_export) => \A c \in ExportPriced : fout[c] = Fin(0)
        /\ fout.price_import_pln_mwh = fin.price_import
        /\ fout.price_export_pln_mwh = fin.price_export

----------------------------------------------------------------------------
(* Claims about the K group of a day (SpecKA) *)

FracEq(x, y) == x[1] * y[2] = y[1] * x[2]

\* delta_s of a day as the claim gives it, from the sums and counts of the
\* peak-fee hours and the other hours
DeltaSStated(E_peak, E_off, Np, Nf) ==
    IF Np = 0 THEN <<0, 1>>
    ELSE IF Nf = 0 THEN <<DeltaSMax, 1>>
    ELSE IF E_off = 0 /\ E_peak = 0 THEN <<0, 1>>
    ELSE IF E_off = 0 /\ E_peak > 0 THEN <<DeltaSMax, 1>>
    ELSE <<100 * (E_peak * Nf - E_off * Np), E_off * Np>>

\* the bucket of delta_s for ascending thresholds t1 <= t2 <= t3
BucketStated(x, t) ==
    CHOOSE Kg \in {"K1", "K2", "K3", "K4"} :
        /\ Kg = "K1" <=> FracBelow(x, t[1])
        /\ Kg = "K2" <=> ~FracBelow(x, t[1]) /\ FracBelow(x, t[2])
        /\ Kg = "K3" <=> ~FracBelow(x, t[2]) /\ FracBelow(x, t[3])
        /\ Kg = "K4" <=> ~FracBelow(x, t[3])

\* C39: delta_s of a day is (avg_peak / avg_off - 1) * 100, it is 0 when
\* both averages are 0, unbounded when only avg_off is 0, and 0 when the day
\* has no peak-fee hour; it is bucketed against the sorted thresholds into
\* K1..K4 and the coefficient A of the bucket is used (peak hours of 6 MWh
\* and off hours of 2 MWh give 200 %, K4 and A = 1.0 with thresholds 5, 10, 15)
C39_BucketAndA ==
    /\ LET ex == ComputeKAPerDay(<<6, 2, 2>>, <<1, 0, 0>>, <<5, 10, 15>>,
                                  [K1 |-> 17, K2 |-> 50, K3 |-> 83, K4 |-> 100])
       IN  FracEq(ex.delta_s_day_pct, <<200, 1>>) /\ ex.K_group = "K4" /\ ex.A_day = 100
    /\ fpc = "ret" =>
          LET peak == {h \in KHours : fin.is_cap_peak[h] = 1}
              off == KHours \ peak
              stated == DeltaSStated(NpSum(fin.pobor, peak), NpSum(fin.pobor, off),
                                     Cardinality(peak), Cardinality(off))
              t == SortedThr(fin.k_thresholds_pct)
          IN  /\ t[1] <= t[2] /\ t[2] <= t[3]
              /\ {t[1], t[2], t[3]} = {fin.k_thresholds_pct[i] : i \in 1 .. 3}
              /\ FracEq(fout.delta_s_day_pct, stated)
              /\ fout.K_group = BucketStated(stated, t)
              /\ fout.K_group \in DOMAIN fin.k_A_values => fout.A_day = fin.k_A_values[fout.K_group]

----------------------------------------------------------------------------
(* Claims about the SQL files of the bootstrap (SpecBootstrap) *)

\* path p sorts before path q: by folder, and by file name within a folder
PathBefore(p, q) == p[1] < q[1] \/ (p[1] = q[1] /\ p[2] < q[2])

\* C40: the bootstrap executes the .sql files under SQL_DIR in a
\* deterministic order, by folder and by file name within a folder, and the
\* files executed are all the .sql files present
C40_EveryFileInOrder ==
    fpc = "ret" =>
        /\ \A i, j \in DOMAIN fout : i < j => PathBefore(fout[i], fout[j])
        /\ {fout[i] : i \in DOMAIN fout} = fin.present

----------------------------------------------------------------------------
(* Claims about scenario S4 (SpecS4) *)

\* the hour is written and the proposed 0.5 MWh_AC was discharged by step 3
S4Discharged == cpc = "tail" /\ row.discharge_to_grid = S4PropDis

\* the part of the surplus the two storages took (steps 1a and 1b)
S4Absorbed == (row.soc_oze_before_idle - row.soc_oze_in) + row.charge_from_surplus

\* the export cut took the whole ARBI export back and restored the SOC
S4ArbiCutBack ==
    /\ row.export_from_arbi = 0
    /\ row.soc_arbi_before_idle = row.soc_arbi_in + row.charge_from_surplus
    /\ row.export_from_surplus = S4Cap

----------------------------------------------------------------------------
(* Claims about the cash flows (SpecKpi) *)

\* C19: in every hour cashflow_arbi is rev_arbi_to_grid - cost_grid_to_arbi
\* and cashflow_net is cashflow_arbi + rev_surplus_export -
\* cost_import_for_load, both exactly (the same float)
C19_CashflowIdentities ==
    kpc = "kpi" =>
        /\ kpi_out.cashflow_arbi_pln
              = FSub(kpi_out.rev_arbi_to_grid_pln, kpi_out.cost_grid_to_arbi_pln)
        /\ kpi_out.cashflow_net_pln
              = FSub(FAdd(kpi_out.cashflow_arbi_pln, kpi_out.rev_surplus_export_pln),
                     kpi_out.cost_import_for_load_pln)

----------------------------------------------------------------------------
(* Claims about the cycle simulation of the proposer (SpecProp) *)

\* hour i is the first hour of its date_key
NewDay(i) == i = 1 \/ H02.date_key[i] # H02.date_key[i - 1]

\* SOC_sim, pending and the counter of the day as hour i finds them (pending
\* before the reset at the day boundary)
SocBefore(i) == IF i = 1 THEN H02.soc0_arbi_mwh ELSE out02[i - 1].soc_arbi_sim_mwh
PendingBefore(i) == IF i = 1 THEN H02.soc0_arbi_mwh ELSE out02[i - 1].pending_arbi_net_mwh
CyclesBefore(i) == IF NewDay(i) THEN 0 ELSE out02[i - 1].cycles_used_today

\* the counter of the day was incremented in hour i
CycleClosed(i) == out02[i].cycles_used_today > CyclesBefore(i)

\* a charge decision was taken in hour i or before it, after the last
\* increment of a counter
ChargedInCycle(i) ==
    \E j \in 1 .. i : out02[j].dec_ch /\ \A k \in j .. (i - 1) : ~CycleClosed(k)

\* C27: the counter of a day is incremented only in an hour with a discharge
\* decision that brings pending to zero (up to EPS) after at least one charge
\* decision of the same cycle, and then by one; an hour without a decision
\* changes neither SOC_sim, nor pending (but for the reset at a day boundary),
\* nor the counter
C27_CycleCounter ==
    \A i \in DOMAIN out02 :
        /\ CycleClosed(i) =>
              /\ out02[i].dec_dis
              /\ out02[i].pending_arbi_net_mwh <= EPS02
              /\ out02[i].cycles_used_today = CyclesBefore(i) + 1
              /\ ChargedInCycle(i)
        /\ (out02[i].dec_dis /\ out02[i].pending_arbi_net_mwh <= EPS02 /\ ChargedInCycle(i))
              => CycleClosed(i)
        /\ (~out02[i].dec_ch /\ ~out02[i].dec_dis) =>
              /\ out02[i].soc_arbi_sim_mwh = SocBefore(i)
              /\ out02[i].cycles_used_today = CyclesBefore(i)
              /\ \/ out02[i].pending_arbi_net_mwh = PendingBefore(i)
                 \/ NewDay(i) /\ ~H02.allow_carry_over /\ out02[i].pending_arbi_net_mwh = 0

\* the loop state hour i starts from, read back from the rows written so far
StateBefore(i) ==
    [ soc_curr |-> SocBefore(i), pending_arbi_net |-> PendingBefore(i),
      cycles |-> CyclesBefore(i), prev_day |-> IF i = 1 THEN 0 ELSE H02.date_key[i - 1] ]

\* SOC_sim and pending of hour i when its discharge step starts
SocAtDis(i) == HourBody02(H02, k_low_by_hour, k_high_by_hour, StateBefore(i), i).soc_after_ch
PendingAtDis(i) == HourBody02(H02, k_low_by_hour, k_high_by_hour, StateBefore(i), i).pending_after_ch

\* can_dis_net of the claim for hour i
CanDisNet(i) ==
    LET cap_dis_ac_eff == Min(H02.cap_grid_export_ac_mwh,
                              MulFrac(H02.cap_bess_discharge_net_mwh, H02.eta_dis_frac))
        c == Min(DivFrac(cap_dis_ac_eff, H02.eta_dis_frac), SocAtDis(i))
    IN  IF H02.force_order THEN Min(c, PendingAtDis(i)) ELSE c

\* hour i is a high-side hour with delta_k - thr_high >= 0 and the counter of its day below K
HighSideOpen(i) ==
    /\ k_high_by_hour[i] # 0
    /\ \E dk \in out02[i].delta_k : dk - out02[i].thr_high >= 0
    /\ CyclesBefore(i) < H02.cycles_per_day

\* the discharge decision of hour i is taken with can_dis_net
DischargedCanDisNet(i) ==
    /\ out02[i].dec_dis
    /\ out02[i].prop_arbi_dis_to_grid_ac_mwh = MulFrac(CanDisNet(i), H02.eta_dis_frac)
    /\ SocAtDis(i) - out02[i].soc_arbi_sim_mwh = CanDisNet(i)

\* with force_order the NET energy discharged in hour i is at most pending
OrderKept(i) ==
    H02.force_order => SocAtDis(i) - out02[i].soc_arbi_sim_mwh <= PendingAtDis(i)

C29_ProposalBounds ==
    \A i \in DOMAIN out02 :
        LET o == out02[i]
        IN  /\ o.prop_arbi_ch_from_grid_ac_mwh
                  <= Min(H02.cap_grid_import_ac_mwh,
                         DivFrac(H02.cap_bess_charge_net_mwh, H02.eta_ch_frac))
            /\ MulFrac(o.prop_arbi_ch_from_grid_ac_mwh, H02.eta_ch_frac)
                  <= H02.emax_arbi_mwh - SocBefore(i)
            /\ o.prop_arbi_dis_to_grid_ac_mwh
                  <= Min(H02.cap_grid_export_ac_mwh,
                         MulFrac(H02.cap_bess_discharge_net_mwh, H02.eta_dis_frac))
            /\ DivFrac(o.prop_arbi_dis_to_grid_ac_mwh, H02.eta_dis_frac) <= SocBefore(i)
            /\ 0 <= o.soc_arbi_sim_mwh /\ o.soc_arbi_sim_mwh <= H02.emax_arbi_mwh
            /\ 0 <= o.pending_arbi_net_mwh /\ o.pending_arbi_net_mwh <= o.soc_arbi_sim_mwh

\* pending of hour i after the test of the day boundary
PendingAtStart(i) == HourBody02(H02, k_low_by_hour, k_high_by_hour, StateBefore(i), i).pending_at_start

\* C30: at the first hour of a new date_key pending starts from 0 when
\* allow_carry_over is false and from the pending of the hour before when it
\* is true; SOC_sim is carried over unchanged; the counter of the day that
\* ended stays as its last hour left it (an unused pending closes no cycle)
\* and the counter of the new day starts from 0
C30_DayBoundary ==
    \A i \in DOMAIN out02 :
        NewDay(i) =>
            /\ PendingAtStart(i) = IF H02.allow_carry_over THEN PendingBefore(i) ELSE 0
            /\ (~out02[i].dec_ch /\ ~out02[i].dec_dis) =>
                  /\ out02[i].pending_arbi_net_mwh
                        = IF H02.allow_carry_over THEN PendingBefore(i) ELSE 0
                  /\ out02[i].soc_arbi_sim_mwh = SocBefore(i)
                  /\ out02[i].cycles_used_today = 0
            /\ out02[i].dec_ch => out02[i].soc_arbi_sim_mwh >= SocBefore(i)
            /\ out02[i].cycles_used_today <= 1
            /\ out02[i].cycles_used_today = 1 => out02[i].dec_dis
            /\ i > 1 => cycles_used[H02.date_key[i - 1]] = out02[i - 1].cycles_used_today

\* allow_carry_over is false, a day has ended with unused pending and SOC_sim
\* above 0, and the first hour of the next day has reset pending and kept SOC_sim
C30_Witness ==
    \E i \in DOMAIN out02 :
        /\ i > 1 /\ NewDay(i) /\ ~H02.allow_carry_over
        /\ PendingBefore(i) > EPS02
        /\ out02[i].pending_arbi_net_mwh = 0
        /\ out02[i].soc_arbi_sim_mwh = SocBefore(i) /\ SocBefore(i) > EPS02

\* C31: no hour of a run has both dec_ch and dec_dis set (the condition
\* both_flags of _check_02_proposer)
C31_NoBothFlags ==
    \A i \in DOMAIN out02 : ~(out02[i].dec_ch /\ out02[i].dec_dis)

\* the policy of the example of C35: base_min_profit = 50, p_low = 10 %,
\* soc_bonus_ch = 30, no bonus window, emax_arbi = 100
Example35 ==
    [BaseSetup EXCEPT !.emax_arbi_mwh = 100, !.base_min_profit_pln_mwh = 50,
                      !.soc_low_threshold = 10, !.bonus_low_soc_ch = 30]

\* thr_low of hour i as the claim gives it
ThrLowStated(i) ==
    H02.base_min_profit_pln_mwh
      + (IF i \in H02.bonus_hrs_ch THEN H02.bonus_ch_window ELSE 0)
      + (IF 100 * SocBefore(i) <= H02.soc_low_threshold * H02.emax_arbi_mwh
         THEN H02.bonus_low_soc_ch ELSE 0)

\* C35: thr_low is base_min_profit plus hour_bonus_ch in an hour of the bonus
\* window plus soc_bonus_ch when SOC_sim <= p_low * emax_arbi; a low-side hour
\* has the charge decision (dec_ch_base) exactly when delta_k - thr_low >= 0,
\* headroom > 0 and cycles_today < K, and then it charges (dec_ch) unless the
\* charge cap leaves nothing; in the example thr_low = 80, delta_k = 85
\* charges and delta_k = 70 does not
C35_ChargeThreshold ==
    /\ LowSocBonusHit(Example35, 5)
    /\ ThrLow(Example35, FALSE, LowSocBonusHit(Example35, 5)) = 80
    /\ DecChBase(85, ThrLow(Example35, FALSE, TRUE), 95, 0, 1)
    /\ ~DecChBase(70, ThrLow(Example35, FALSE, TRUE), 95, 0, 1)
    /\ \A i \in DOMAIN out02 :
          LET o == out02[i]
              cap_net == Min(MulFrac(Min(H02.cap_grid_import_ac_mwh,
                                         DivFrac(H02.cap_bess_charge_net_mwh, H02.eta_ch_frac)),
                                     H02.eta_ch_frac),
                             H02.emax_arbi_mwh - SocBefore(i))
          IN  /\ o.thr_low = ThrLowStated(i)
              /\ o.dec_ch_base <=>
                    /\ k_low_by_hour[i] # 0
                    /\ \E dk \in o.delta_k : dk - ThrLowStated(i) >= 0
                    /\ H02.emax_arbi_mwh - SocBefore(i) > EPS02
                    /\ CyclesBefore(i) < H02.cycles_per_day
              /\ o.dec_ch <=> (o.dec_ch_base /\ cap_net > EPS02)
              /\ o.dec_ch <=> o.prop_arbi_ch_from_grid_ac_mwh > 0

\* a low-side hour whose threshold holds the SOC bonus and that charges, and
\* a low-side hour that the threshold with the SOC bonus keeps from charging
C35_Witness ==
    /\ \E i \in DOMAIN out02 :
          /\ H02.bonus_low_soc_ch > 0 /\ out02[i].low_soc_bonus_hit
          /\ out02[i].thr_low = H02.base_min_profit_pln_mwh + H02.bonus_low_soc_ch
          /\ out02[i].dec_ch
    /\ \E i \in DOMAIN out02 :
          /\ k_low_by_hour[i] # 0 /\ out02[i].low_soc_bonus_hit
          /\ \E dk \in out02[i].delta_k :
                dk - H02.base_min_profit_pln_mwh >= 0 /\ dk - out02[i].thr_low < 0
          /\ ~out02[i].dec_ch

\* hour a comes before hour b in a list sorted by the key, ties by earlier hour
EarlierByKey(key, a, b) == key[a] < key[b] \/ (key[a] = key[b] /\ a < b)

\* the up-to-K hours of a day with the lowest price_import, ties to the earlier hour
LowsAsStated(Hh, idx) ==
    CHOOSE S \in LowCands(Hh, idx) :
        \A a \in S, b \in idx \ S : EarlierByKey(Hh.price_import, a, b)

\* the up-to-K hours of a day with the highest price_export, most expensive
\* first, ties to the earlier hour
HighsAsStated(Hh, idx) ==
    LET neg == [h \in DOMAIN Hh.price_export |-> 0 - Hh.price_export[h]]
    IN  CHOOSE q \in HighCands(Hh, idx) :
            /\ \A a, b \in DOMAIN q : a < b => EarlierByKey(neg, q[a], q[b])
            /\ \A a \in DOMAIN q, h \in idx :
                  (\A b \in DOMAIN q : q[b] # h) => EarlierByKey(neg, q[a], h)

\* the pairs of all days when the candidates are the stated ones
RECURSIVE PairsAsStated(_, _, _)
PairsAsStated(Hh, days, maps) ==
    IF days = {} THEN maps
    ELSE LET day == MinOf(days)
             idx == HoursOfDay(Hh, day)
         IN  IF idx = {}
             THEN PairsAsStated(Hh, days \ {day}, maps)
             ELSE PairsAsStated(Hh, days \ {day},
                                GreedyPairs(LowsAsStated(Hh, idx), HighsAsStated(Hh, idx), {}, maps))

\* C36: per day the low candidates are the up-to-K hours of lowest
\* price_import and the high candidates the up-to-K hours of highest
\* price_export, ties broken by the earlier hour; the lows taken in time
\* order get the most expensive unused high candidate later than them or no
\* pair, so the two dicts are the ones this rule determines
C36_PairsAsStated ==
    ppc # "pairs" =>
        [low |-> k_low_by_hour, high |-> k_high_by_hour] = PairsAsStated(H02, Days02, NoPairs)

----------------------------------------------------------------------------
(* Claims about the busy flag of the listener (SpecListen) *)

\* the tasks of the listener that are inside _drain_queue
DrainingTasks ==
    (IF debounce_task = "drain" THEN {"debounce"} ELSE {})
    \cup (IF poll_task \in {"drain_notify", "drain_tick"} THEN {"poll"} ELSE {})
    \cup (IF start_task = "drain" THEN {"start"} ELSE {})

\* C25: under every interleaving of the drain of start(), the debounced drain
\* and the poll/tick drain at most one drain is active, run_calc runs only
\* inside that drain, and the busy flag is set exactly while a drain is active
\* (so it is clear after a drain has ended, by return or by exception)
C25_OneDrainAtATime ==
    /\ Cardinality(DrainingTasks) <= 1
    /\ listener_busy <=> DrainingTasks # {}
    /\ drain_pc # "none" <=> listener_busy

\* the debounced drain is inside run_calc and _poll_loop, woken meanwhile with
\* _notify_event set, has found the listener busy and cleared the event
C25_Witness ==
    /\ debounce_task = "drain" /\ drain_pc = "run" /\ listener_busy
    /\ poll_task = "sleep" /\ poll_left = PollSec /\ ~notify_event

----------------------------------------------------------------------------
(* Claims about the status constraint of the queue table (SpecQueue) *)

\* C26: on the queue table created by the enqueue DDL no update of the
\* dispatcher (pick, coalescing, marking done or failed) is rejected by the
\* status constraint
C26_WritesAccepted ==
    [][status_check = EnqueueDdlStatuses =>
         \A d \in Disp :
            /\ ~PickRejected(d)
            /\ ~(dpc[d] = "locked" /\ "running" \notin status_check)
            /\ ~(dpc[d] = "run" /\ status'[picked[d]] = "done" /\ "done" \notin status_check)
            /\ ~(RunRaise(d) /\ "failed" \notin status_check)]_vars

\* C24: while the listener keeps running every job inserted as queued ends
\* done, failed or skipped, and a row has status running only while the drain
\* that picked it is still active
Terminal == {"done", "failed", "skipped"}

C24_QueuedJobsFinish ==
    /\ \A j \in Jobs : (status[j] = "queued") ~> (status[j] \in Terminal)
    /\ [](\A j \in Jobs : status[j] = "running" => \E d \in Disp : busy[d] /\ picked[d] = j)

----------------------------------------------------------------------------
(* Claims about the stage rows of other runs (SpecRun) *)

\* C16: no step removes from a stage table the committed rows of a calc_id
\* other than the one being persisted, whatever the clear mode and however
\* the runs overlap
C16_NoMutationOfOtherRuns ==
    [][\A tb \in StageTables : \A o \in Runs :
          (o \in visible[tb] /\ rpc[o] # "persist") => o \in visible'[tb]]_vars

----------------------------------------------------------------------------
(* Claims about the zone masks of 01_ingest (SpecIngest) *)

\* the hours of the window [s, e), a window with s > e going past midnight
WindowHours(s, e) ==
    IF s < e THEN {h \in DayHours : s <= h /\ h < e}
    ELSE IF s > e THEN {h \in DayHours : h >= s \/ h < e}
    ELSE {}

\* C15: the three masks of every (month, mode) add up to 24 hours and give
\* no hour two zones, a window with start > end covers [start, 24) and
\* [0, end), and a (month, mode) whose morning and afternoon windows share
\* an hour makes the run fail
C15_MasksPartition ==
    /\ \A key \in DOMAIN cache_masks :
         LET c == cache_masks[key]
             w == win_of[key]
         IN  /\ MaskSum(c.am) + MaskSum(c.pm) + MaskSum(c.off) = HoursPerDay
             /\ \A h \in DayHours : c.am[h] + c.pm[h] + c.off[h] = 1
             /\ w.s_am > w.e_am => {h \in DayHours : c.am[h] = 1} = WindowHours(w.s_am, w.e_am)
             /\ w.s_pm > w.e_pm => {h \in DayHours : c.pm[h] = 1} = WindowHours(w.s_pm, w.e_pm)
    /\ \A r \in 1 .. Len(zone01) :
         zone01[r].zone_peak_am + zone01[r].zone_peak_pm + zone01[r].zone_off = 1
    /\ \A key \in DOMAIN win_of :
         LET w == win_of[key]
         IN  WindowHours(w.s_am, w.e_am) \cap WindowHours(w.s_pm, w.e_pm) # {}
               => key \notin DOMAIN cache_masks /\ ipc = "failed"

\* a morning window [22, 2) was built into masks, and another (month, mode)
\* with overlapping windows has stopped the run
C15_Witness ==
    /\ ipc = "failed"
    /\ \E key \in DOMAIN cache_masks :
         /\ win_of[key].s_am = 22 /\ win_of[key].e_am = 2
         /\ {h \in DayHours : cache_masks[key].am[h] = 1} = {22, 23, 0, 1}
         /\ MaskSum(cache_masks[key].pm) > 0
    /\ \E key \in DOMAIN win_of :
         /\ WindowInRange(win_of[key].s_am, win_of[key].e_am)
         /\ WindowInRange(win_of[key].s_pm, win_of[key].e_pm)
         /\ WindowHours(win_of[key].s_am, win_of[key].e_am)
              \cap WindowHours(win_of[key].s_pm, win_of[key].e_pm) # {}

====
